---- MODULE Spec2Model ----
(***************************************************************************)
(* A model of the FCS reader of njd2/fcsrw: the deferred-diagnostic        *)
(* accumulator (crates/fireflow-core/src/error.rs), the keyword-lookup     *)
(* state machine and the version-parameterised TEXT interpretation         *)
(* (src/api.rs), the raw TEXT splitter (src/api.rs) and the order in which *)
(* a full-file parse reads the segments of the file (src/api.rs).          *)
(*                                                                         *)
(* Each subsystem has its own variables, its own initial condition and its *)
(* own next-state relation; a specification of one subsystem keeps the     *)
(* variables of the others at their idle values.                           *)
(***************************************************************************)
EXTENDS Integers, Sequences, FiniteSets, Bags, TLC

VARIABLES
    \* ---- error accumulator (error.rs) ----
    res,        \* the PureSuccess / Failure value being threaded through
    emitted,    \* history: every diagnostic produced so far, in production order
    lastOp,     \* the combinator applied last
    \* ---- keyword-lookup primitives (KwState) ----
    raw_standard_keywords,  \* StdKey -> [present, value, status]
    missing_keywords,       \* Vec<StdKey>
    deprecated_keys,        \* Vec<StdKey>
    deprecated_features,    \* Vec<String>
    raw_nonstandard_keywords, \* the NonStdKeys not yet claimed by a measurement
    meta_errors,            \* Vec<String>
    meta_warnings,          \* Vec<String>
    call,                   \* the lookup performed last and what it returned
    \* ---- TEXT interpretation (raw_to_std_text) ----
    text,       \* the input: version, configuration, RawTEXT
    interp,     \* the outcome of parse_raw_text
    \* ---- raw TEXT splitter (split_raw_text) ----
    xs,         \* the bytes of the TEXT segment
    conf_raw,   \* RawTextReader flags
    split,      \* the outcome of split_raw_text
    \* ---- full-file parse (read_fcs_file) ----
    pc,         \* position of read_fcs_file
    file,       \* what the file holds: version, segments, faults
    readLog,    \* the segments read so far, in order
    \* ---- the segments of a file (Segment, parse_header, find_raw_segments) ----
    segs,       \* the offsets given, the configuration and the segments made
    \* ---- reading an integer column (IntFromBytes) ----
    ints,       \* the column, its parser, the bytes ahead and the value read
    \* ---- typed keyword values (the FromStr and Display impls) ----
    tv,         \* a string, the value parsed from it, its print and the value parsed again
    \* ---- reading DATA (read_data_delim_ascii, read_data_mixed) ----
    dat         \* the plan, the bytes of DATA ahead and the columns filled

vars == <<res, emitted, lastOp,
          raw_standard_keywords, missing_keywords, deprecated_keys,
          deprecated_features, raw_nonstandard_keywords,
          meta_errors, meta_warnings, call,
          text, interp, xs, conf_raw, split, pc, file, readLog, segs, ints, tv, dat>>

accVars == <<res, emitted, lastOp>>
kwVars == <<raw_standard_keywords, missing_keywords, deprecated_keys,
            deprecated_features, raw_nonstandard_keywords,
            meta_errors, meta_warnings, call>>
textVars == <<text, interp>>
splitVars == <<xs, conf_raw, split>>
fileVars == <<pc, file, readLog, segs, ints, tv, dat>>

Idle == "idle"

AccIdle == res = Idle /\ emitted = <<>> /\ lastOp = Idle
KwIdle ==
    /\ raw_standard_keywords = Idle
    /\ missing_keywords = <<>>
    /\ deprecated_keys = <<>>
    /\ deprecated_features = <<>>
    /\ raw_nonstandard_keywords = {}
    /\ meta_errors = <<>>
    /\ meta_warnings = <<>>
    /\ call = Idle
TextIdle == text = Idle /\ interp = Idle
SplitIdle == xs = <<>> /\ conf_raw = Idle /\ split = Idle
FileIdle == pc = Idle /\ file = Idle /\ readLog = <<>> /\ segs = Idle /\ ints = Idle /\ tv = Idle /\ dat = Idle

(***************************************************************************)
(* Generic helpers.                                                        *)
(***************************************************************************)
RECURSIVE SeqToBag(_)
SeqToBag(s) ==
    IF s = <<>> THEN EmptyBag
    ELSE SetToBag({Head(s)}) (+) SeqToBag(Tail(s))

RECURSIVE SeqsUpTo(_, _)
SeqsUpTo(S, n) ==
    IF n = 0 THEN {<<>>}
    ELSE LET shorter == SeqsUpTo(S, n - 1)
         IN  shorter \cup {Append(s, x) : s \in shorter, x \in S}

Range(s) == {s[i] : i \in 1..Len(s)}

(***************************************************************************)
(* Error accumulator: crates/fireflow-core/src/error.rs.                   *)
(***************************************************************************)
MaxMsg == 1         \* distinct diagnostic messages (each at both levels)
MaxDeferred == 3    \* diagnostics produced in one run

PureErrorLevel == {"Error", "Warning"}
PureError == [msg : 1..MaxMsg, level : PureErrorLevel]
\* an operand of a combinator carries no diagnostic or one
PureErrorBuf == {<<>>} \cup {<<e>> : e \in PureError}
\* The payload X of a PureSuccess<X>: a scalar, or the Vec<X> that `sequence`
\* returns. A scalar x is held as <<x>> so that both have one shape.
Data == {<<0>>, <<1>>}
NoData == <<>>
IsScalar(d) == Len(d) = 1

\* PureSuccess<X> and Failure<E> share one record shape: ok tells them apart;
\* a Failure has no data.
PureSuccess(d, es) == [ok |-> TRUE, data |-> d, deferred |-> es]
Failure(es) == [ok |-> FALSE, data |-> NoData, deferred |-> es]

\* the operands of a combinator; their data only feeds the closure
Successes == {PureSuccess(<<0>>, es) : es \in PureErrorBuf}
Failures == {Failure(es) : es \in PureErrorBuf}

PureSuccess_from(d) == PureSuccess(d, <<>>)

chain(a, b) == a \o b

RECURSIVE mconcat(_)
mconcat(bufs) ==
    IF bufs = <<>> THEN <<>> ELSE Head(bufs) \o mconcat(Tail(bufs))

Failure_extend(fail, other) == Failure(fail.deferred \o other)

PureSuccess_push(self, e) == PureSuccess(self.data, Append(self.deferred, e))

\* In each combinator the supplied closure is called once; it is modelled by
\* the value it returns on that call (y, or fres).
map(self, y) == PureSuccess(y, self.deferred)

and_then_dropping(self, fres) == PureSuccess(fres.data, fres.deferred)

and_then(self, fres) ==
    PureSuccess(fres.data, fres.deferred \o self.deferred)

try_map(self, fres) ==
    IF fres.ok
    THEN PureSuccess(fres.data, fres.deferred \o self.deferred)
    ELSE Failure(fres.deferred \o self.deferred)

combine(self, other, z) ==
    PureSuccess(z, chain(self.deferred, other.deferred))

sequence(ss) ==
    PureSuccess([i \in 1..Len(ss) |-> ss[i].data[1]],
                mconcat([i \in 1..Len(ss) |-> ss[i].deferred]))

combine3(self, a, b, y) ==
    PureSuccess(y, chain(chain(self.deferred, a.deferred), b.deferred))

combine4(self, a, b, c, y) ==
    PureSuccess(y, chain(chain(chain(self.deferred, a.deferred), b.deferred),
                         c.deferred))

combine_result(self, other, z) ==
    IF other.ok
    THEN combine(self, other, z)
    ELSE Failure_extend(other, self.deferred)

\* `other` is a Result<Y, Failure<E>>: its Ok side carries no diagnostics.
combine_some_result(self, other, z) ==
    IF other.ok
    THEN PureSuccess(z, self.deferred)
    ELSE Failure_extend(other, self.deferred)

AccInit ==
    /\ \E d \in Data : res = PureSuccess_from(d)
    /\ emitted = <<>>
    /\ lastOp = "from"
    /\ KwIdle /\ TextIdle /\ SplitIdle /\ FileIdle

\* the accumulator touches nothing else
AccFrame == UNCHANGED <<kwVars, textVars, splitVars, fileVars>>

Room(n) == Len(emitted) + n <= MaxDeferred

Push ==
    /\ res.ok /\ Room(1)
    /\ \E e \in PureError :
        /\ res' = PureSuccess_push(res, e)
        /\ emitted' = Append(emitted, e)
    /\ lastOp' = "push"
    /\ AccFrame

Map ==
    /\ res.ok
    /\ \E y \in Data : res' = map(res, y)
    /\ emitted' = emitted
    /\ lastOp' = "map"
    /\ AccFrame

AndThen ==
    /\ res.ok
    /\ \E fres \in Successes :
        /\ Room(Len(fres.deferred))
        /\ res' = and_then(res, fres)
        /\ emitted' = emitted \o fres.deferred
    /\ lastOp' = "and_then"
    /\ AccFrame

TryMap ==
    /\ res.ok
    /\ \E fres \in Successes \cup Failures :
        /\ Room(Len(fres.deferred))
        /\ res' = try_map(res, fres)
        /\ emitted' = emitted \o fres.deferred
    /\ lastOp' = "try_map"
    /\ AccFrame

Combine ==
    /\ res.ok
    /\ \E other \in Successes, z \in Data :
        /\ Room(Len(other.deferred))
        /\ res' = combine(res, other, z)
        /\ emitted' = emitted \o other.deferred
    /\ lastOp' = "combine"
    /\ AccFrame

Sequence ==
    /\ res.ok /\ IsScalar(res.data)
    /\ \E a \in Successes, b \in Successes :
        /\ Room(Len(a.deferred) + Len(b.deferred))
        /\ res' = sequence(<<res, a, b>>)
        /\ emitted' = emitted \o a.deferred \o b.deferred
    /\ lastOp' = "sequence"
    /\ AccFrame

Combine3 ==
    /\ res.ok
    /\ \E a \in Successes, b \in Successes, y \in Data :
        /\ Room(Len(a.deferred) + Len(b.deferred))
        /\ res' = combine3(res, a, b, y)
        /\ emitted' = emitted \o a.deferred \o b.deferred
    /\ lastOp' = "combine3"
    /\ AccFrame

Combine4 ==
    /\ res.ok
    /\ \E a \in Successes, b \in Successes, c \in Successes, y \in Data :
        /\ Room(Len(a.deferred) + Len(b.deferred) + Len(c.deferred))
        /\ res' = combine4(res, a, b, c, y)
        /\ emitted' = emitted \o a.deferred \o b.deferred \o c.deferred
    /\ lastOp' = "combine4"
    /\ AccFrame

CombineResult ==
    /\ res.ok
    /\ \E other \in Successes \cup Failures, z \in Data :
        /\ Room(Len(other.deferred))
        /\ res' = combine_result(res, other, z)
        /\ emitted' = emitted \o other.deferred
    /\ lastOp' = "combine_result"
    /\ AccFrame

CombineSomeResult ==
    /\ res.ok
    /\ \E other \in {PureSuccess_from(<<0>>)} \cup Failures, z \in Data :
        /\ Room(Len(other.deferred))
        /\ res' = combine_some_result(res, other, z)
        /\ emitted' = emitted \o other.deferred
    /\ lastOp' = "combine_some_result"
    /\ AccFrame

AccNext ==
    \/ Push
    \/ Map
    \/ AndThen
    \/ TryMap
    \/ Combine
    \/ Sequence
    \/ Combine3
    \/ Combine4
    \/ CombineResult
    \/ CombineSomeResult

SpecAcc == AccInit /\ [][AccNext]_vars

\* C6: whatever combinators were applied, the deferred diagnostics of the
\* current result (a PureSuccess or a Failure) are exactly the diagnostics
\* produced so far, each as often as it was produced: none dropped, none
\* duplicated.
C6_DeferredPreserved == SeqToBag(res.deferred) = SeqToBag(emitted)

\* A Failure came out of a combinator and carries diagnostics of both the
\* earlier steps and the failing step.
C6_Witness ==
    /\ ~res.ok
    /\ lastOp \in {"try_map", "combine_result", "combine_some_result"}
    /\ Len(res.deferred) >= 2

(***************************************************************************)
(* Keyword values and their parsers (src/api.rs, the FromStr impls).       *)
(*                                                                         *)
(* A keyword value is the sequence of its comma-separated fields; a field  *)
(* is a decimal numeral, held as the number it denotes, or any other word. *)
(* "16" is <<N(16)>>, "*" is <<W("*")>>, "1,2,3,4" is <<N(1),N(2),N(3),    *)
(* N(4)>>, "FSC,100" is <<W("FSC"), N(100)>>.                              *)
(***************************************************************************)
N(n) == [k |-> "n", n |-> n, w |-> ""]
W(w) == [k |-> "w", n |-> 0, w |-> w]

NoVal == "none"
Ok(v) == [ok |-> TRUE, val |-> v, msg |-> ""]
Err(m) == [ok |-> FALSE, val |-> NoVal, msg |-> m]

Some(v) == [some |-> TRUE, val |-> v]
None == [some |-> FALSE, val |-> NoVal]
Present(v) == Some(v)
Absent == None

\* a numeral too large for the model's integers: "4294967296" (u32::MAX + 1)
\* or "18446744073709551616" (u64::MAX + 1)
Big(w) == [k |-> "big", n |-> 0, w |-> w]
Above_u32 == "4294967296"
Above_u64 == "18446744073709551616"
IsNumeral(a) == a.k \in {"n", "big"}

\* does the numeral fit the unsigned type of this many bits
Fits(a, bits) ==
    CASE a.k = "n" -> (bits = 8 => a.n <= 255)
      [] a.k = "big" -> (bits = 64 /\ a.w = Above_u32)
      [] OTHER -> FALSE

\* str::parse::<uN>() on one field; the value stays a numeral
parse_uint(s, bits) ==
    IF Len(s) = 1 /\ IsNumeral(s[1])
    THEN IF Fits(s[1], bits) THEN Ok(s[1])
         ELSE Err("number too large to fit in target type")
    ELSE IF Len(s) = 1 /\ s[1].w = ""
         THEN Err("cannot parse integer from empty string")
         ELSE Err("invalid digit found in string")

\* parse::<uN>() of a numeral the model's integers can hold, as that integer
parse_small(s, bits) ==
    LET x == parse_uint(s, bits)
    IN  IF x.ok /\ x.val.k = "n" THEN Ok(x.val.n) ELSE x

\* str::parse::<f32>() on one field; a float is held as the number it denotes
parse_float(s) ==
    IF Len(s) = 1 /\ IsNumeral(s[1]) THEN Ok(s[1])
    ELSE Err("invalid float literal")

String_from_str(s) == Ok(s)

AlphaNumType_from_str(s) ==
    IF s = <<W("I")>> THEN Ok("Integer")
    ELSE IF s = <<W("F")>> THEN Ok("Single")
    ELSE IF s = <<W("D")>> THEN Ok("Double")
    ELSE IF s = <<W("A")>> THEN Ok("Ascii")
    ELSE Err("must be one of 'I', 'F', 'D', or 'A'")

NumType_from_str(s) ==
    IF s = <<W("I")>> THEN Ok("Integer")
    ELSE IF s = <<W("F")>> THEN Ok("Single")
    ELSE IF s = <<W("D")>> THEN Ok("Double")
    ELSE Err("must be one of 'F', 'D', or 'A'")

Mode_from_str(s) ==
    IF s = <<W("C")>> THEN Ok("Correlated")
    ELSE IF s = <<W("L")>> THEN Ok("List")
    ELSE IF s = <<W("U")>> THEN Ok("Uncorrelated")
    ELSE Err("must be one of 'C', 'L', or 'U'")

Mode3_2_from_str(s) ==
    IF s = <<W("L")>> THEN Ok("List") ELSE Err("can only be 'L'")

Endian_from_str(s) ==
    IF s = <<N(1), N(2), N(3), N(4)>> THEN Ok("Little")
    ELSE IF s = <<N(4), N(3), N(2), N(1)>> THEN Ok("Big")
    ELSE Err("Endian must be either 1,2,3,4 or 4,3,2,1")

\* ByteOrd is Endian(e), or Mixed(xs) with xs the zero-based byte positions
ByteOrd_Endian(e) == [endian |-> TRUE, e |-> e, order |-> <<>>]
ByteOrd_Mixed(order) == [endian |-> FALSE, e |-> "", order |-> order]

ByteOrd_from_str(s) ==
    LET e == Endian_from_str(s)
        nxs == Len(s)
        \* filter_map(parse::<u8>().ok()).unique(): the first occurrences
        isNum(i) == Fits(s[i], 8)
        keep == {i \in 1..nxs :
                    isNum(i) /\ \A j \in 1..(i - 1) : ~(isNum(j) /\ s[j].n = s[i].n)}
        nums == {s[i].n : i \in keep}
        RECURSIVE Pick(_)
        Pick(i) == IF i > nxs THEN <<>>
                   ELSE IF i \in keep THEN <<s[i].n - 1>> \o Pick(i + 1)
                   ELSE Pick(i + 1)
    IN  IF e.ok THEN Ok(ByteOrd_Endian(e.val))
        ELSE IF nums = {} THEN Err("Could not parse numbers in byte order")
        ELSE IF /\ (\A x \in nums : x >= 1) /\ 1 \in nums
                /\ (\A x \in nums : x <= nxs) /\ nxs \in nums
                /\ Cardinality(keep) = nxs
             THEN Ok(ByteOrd_Mixed(Pick(1)))
             ELSE Err("Byte order must include 1-n uniquely")

Trigger_from_str(s) ==
    IF Len(s) = 2
    THEN LET t == parse_uint(<<s[2]>>, 32)
         IN  IF t.ok THEN Ok([measurement |-> <<s[1]>>, threshold |-> t.val])
             ELSE Err(t.msg)
    ELSE Err("must be like 'string,f'")

Bytes_Fixed(b) == [fixed |-> TRUE, b |-> b]
Bytes_Variable == [fixed |-> FALSE, b |-> 0]

Bytes_from_str(s) ==
    IF s = <<W("*")>> THEN Ok(Bytes_Variable)
    ELSE LET x == parse_small(s, 8)
         IN  IF ~x.ok THEN Err(x.msg)
             ELSE IF x.val > 64 THEN Err("bit widths over 64 are not supported")
             ELSE IF x.val % 8 > 1 THEN Err("bit widths must be octets")
             ELSE Ok(Bytes_Fixed(x.val \div 8))

PANIC == "panic"

\* Range is Int(u64) or Float(f64); the u64 is a numeral
Range_Int(a) == [int |-> TRUE, v |-> a]
Range_Float(a) == [int |-> FALSE, v |-> a]
u64_MAX == Big("18446744073709551615")

\* Range::Int(x - 1): the subtraction is on u64. On "0" it aborts when the
\* build has overflow checks and wraps to u64::MAX when it has none.
Range_from_str(s, overflow_checks) ==
    LET x == parse_uint(s, 64)
    IN  IF x.ok
        THEN IF x.val = N(0)
             THEN IF overflow_checks THEN Err(PANIC) ELSE Ok(Range_Int(u64_MAX))
             ELSE IF x.val.k = "n" THEN Ok(Range_Int(N(x.val.n - 1)))
             ELSE Ok(Range_Int(Big("4294967295")))
        ELSE IF Len(s) = 1 /\ IsNumeral(s[1])
             THEN Ok(Range_Int(u64_MAX))                 \* PosOverflow
             ELSE IF Len(s) = 1 /\ s[1].w = ""
                  THEN Err(x.msg)                        \* IntErrorKind::Empty
                  ELSE Err("invalid float literal")      \* not a float either

Shortname_from_str(s) ==
    IF Len(s) > 1 THEN Err("commas are not allowed") ELSE Ok(s)

Scale_Linear == [log |-> FALSE, decades |-> N(0), offset |-> N(0)]
Scale_Log(d, o) == [log |-> TRUE, decades |-> d, offset |-> o]

Scale_from_str(s) ==
    IF Len(s) = 2
    THEN LET f1 == parse_float(<<s[1]>>)
             f2 == parse_float(<<s[2]>>)
         IN  IF ~f1.ok THEN Err(f1.msg)
             ELSE IF ~f2.ok THEN Err(f2.msg)
             ELSE IF f1.val = N(0) /\ f2.val = N(0) THEN Ok(Scale_Linear)
             ELSE Ok(Scale_Log(f1.val, f2.val))
    ELSE Err("must be like 'f1,f2'")

\* <V as FromStr>::from_str, by the type V the caller asks for
FromStr(ty, s) ==
    CASE ty = "usize" -> parse_uint(s, 64)
      [] ty = "u32" -> parse_uint(s, 32)
      [] ty = "f32" -> parse_float(s)
      [] ty = "String" -> String_from_str(s)
      [] ty = "AlphaNumType" -> AlphaNumType_from_str(s)
      [] ty = "Mode" -> Mode_from_str(s)
      [] ty = "Mode3_2" -> Mode3_2_from_str(s)
      [] ty = "Endian" -> Endian_from_str(s)
      [] ty = "ByteOrd" -> ByteOrd_from_str(s)
      [] ty = "Trigger" -> Trigger_from_str(s)
      [] ty = "Bytes" -> Bytes_from_str(s)
      [] ty = "Shortname" -> Shortname_from_str(s)
      [] ty = "Scale" -> Scale_from_str(s)
      [] ty = "NumType" -> NumType_from_str(s)
      [] ty = "Range" -> Range_from_str(s, FALSE)
      [] ty = "Range, overflow checks" -> Range_from_str(s, TRUE)

(***************************************************************************)
(* The keyword-lookup state machine: struct KwState (src/api.rs).          *)
(***************************************************************************)
\* a standard key: $PAR is Key("$PAR", 0), $P1B is Key("$PnB", 1)
Key(name, n) == <<name, n>>

ValueStatus_Raw == [tag |-> "Raw", msg |-> ""]
ValueStatus_Used == [tag |-> "Used", msg |-> ""]
ValueStatus_Error(m) == [tag |-> "Error", msg |-> m]
ValueStatus_Warning(m) == [tag |-> "Warning", msg |-> m]

KwValue(v) == [value |-> v, status |-> ValueStatus_Raw]

\* the KwState the variables hold
KwState ==
    [kws |-> raw_standard_keywords,
     ns |-> raw_nonstandard_keywords,
     missing |-> missing_keywords,
     deprecated_keys |-> deprecated_keys,
     deprecated_features |-> deprecated_features,
     meta_errors |-> meta_errors,
     meta_warnings |-> meta_warnings]

SetKwState(st) ==
    /\ raw_standard_keywords' = st.kws
    /\ raw_nonstandard_keywords' = st.ns
    /\ missing_keywords' = st.missing
    /\ deprecated_keys' = st.deprecated_keys
    /\ deprecated_features' = st.deprecated_features
    /\ meta_errors' = st.meta_errors
    /\ meta_warnings' = st.meta_warnings

\* a lookup returns the new state and the value handed to the caller
Ret(st, r) == [st |-> st, ret |-> r]

\* let x = e in body: the body applied to the value
Let(e, body(_)) == body(e)

MarkParsed(st, k, dep, status) ==
    [st EXCEPT !.kws[k].status = status,
               !.deprecated_keys = IF dep THEN Append(@, k) ELSE @]

lookup_required_reparsing(st, k, dep, ty) ==
    IF k \in DOMAIN st.kws
    THEN LET p == FromStr(ty, st.kws[k].value)
         IN  IF p.ok
             THEN Ret(MarkParsed(st, k, dep, ValueStatus_Used), Some(p.val))
             ELSE Ret(MarkParsed(st, k, dep, ValueStatus_Error(p.msg)), None)
    ELSE Ret([st EXCEPT !.missing = Append(@, k)], None)

lookup_required(st, k, dep, ty) ==
    IF k \in DOMAIN st.kws
    THEN IF st.kws[k].status = ValueStatus_Raw
         THEN LET p == FromStr(ty, st.kws[k].value)
              IN  IF p.ok
                  THEN Ret(MarkParsed(st, k, dep, ValueStatus_Used), Some(p.val))
                  ELSE Ret(MarkParsed(st, k, dep, ValueStatus_Error(p.msg)), None)
         ELSE Ret(st, None)
    ELSE Ret([st EXCEPT !.missing = Append(@, k)], None)

lookup_optional_as_error(st, k, dep, ty) ==
    IF k \in DOMAIN st.kws /\ st.kws[k].status = ValueStatus_Raw
    THEN LET p == FromStr(ty, st.kws[k].value)
         IN  IF p.ok
             THEN Ret(MarkParsed(st, k, dep, ValueStatus_Used), Present(p.val))
             ELSE Ret(MarkParsed(st, k, dep, ValueStatus_Error(p.msg)), Absent)
    ELSE Ret(st, Absent)

lookup_optional(st, k, dep, ty) ==
    IF k \in DOMAIN st.kws
    THEN IF st.kws[k].status = ValueStatus_Raw
         THEN LET p == FromStr(ty, st.kws[k].value)
              IN  IF p.ok
                  THEN Ret(MarkParsed(st, k, dep, ValueStatus_Used), Present(p.val))
                  ELSE Ret(MarkParsed(st, k, dep, ValueStatus_Warning(p.msg)), Absent)
         ELSE Ret(st, Absent)
    ELSE Ret(st, Absent)

push_meta_error(st, msg) == [st EXCEPT !.meta_errors = Append(@, msg)]
push_meta_warning(st, msg) == [st EXCEPT !.meta_warnings = Append(@, msg)]
push_meta_error_or_warning(st, is_error, msg) ==
    IF is_error THEN push_meta_error(st, msg) ELSE push_meta_warning(st, msg)

(***************************************************************************)
(* The lookup primitives called in any order on a small keyword map.       *)
(***************************************************************************)
MaxCalls == 3       \* lookups performed in one run

LookupKeys == {Key("$TOT", 0), Key("$COM", 0)}
LookupTypes == {"u32", "String"}
LookupValues == {<<N(5)>>, <<W("x")>>}

StatusBefore(k) ==
    IF k \in DOMAIN raw_standard_keywords
    THEN raw_standard_keywords[k].status.tag
    ELSE "Absent"

LookupInit ==
    /\ \E present \in SUBSET LookupKeys :
        raw_standard_keywords \in [present -> {KwValue(v) : v \in LookupValues}]
    /\ raw_nonstandard_keywords = {}
    /\ missing_keywords = <<>>
    /\ deprecated_keys = <<>>
    /\ deprecated_features = <<>>
    /\ meta_errors = <<>>
    /\ meta_warnings = <<>>
    /\ call = [n |-> 0, kind |-> "none", key |-> Key("", 0), dep |-> FALSE, ty |-> "",
               pre |-> "", ret |-> None]
    /\ AccIdle /\ TextIdle /\ SplitIdle /\ FileIdle

LookupFrame == UNCHANGED <<accVars, textVars, splitVars, fileVars>>

LookupRequired ==
    /\ call.n < MaxCalls
    /\ \E k \in LookupKeys, dep \in BOOLEAN, ty \in LookupTypes :
        LET r == lookup_required(KwState, k, dep, ty)
        IN  /\ SetKwState(r.st)
            /\ call' = [n |-> call.n + 1, kind |-> "required", key |-> k,
                        dep |-> dep, ty |-> ty, pre |-> StatusBefore(k),
                        ret |-> r.ret]
    /\ LookupFrame

LookupOptional ==
    /\ call.n < MaxCalls
    /\ \E k \in LookupKeys, dep \in BOOLEAN, ty \in LookupTypes :
        LET r == lookup_optional(KwState, k, dep, ty)
        IN  /\ SetKwState(r.st)
            /\ call' = [n |-> call.n + 1, kind |-> "optional", key |-> k,
                        dep |-> dep, ty |-> ty, pre |-> StatusBefore(k),
                        ret |-> r.ret]
    /\ LookupFrame

LookupNext ==
    \/ LookupRequired
    \/ LookupOptional

SpecLookup == LookupInit /\ [][LookupNext]_vars

\* C3: the first lookup of a keyword that is present with status Raw parses
\* its value; the status becomes Used and the parsed value is returned when
\* parsing succeeds; when it fails nothing is returned and the status becomes
\* Error in a required lookup and Warning in an optional one.
C3_FirstLookup ==
    (call.kind \in {"required", "optional"} /\ call.pre = "Raw") =>
        LET v == raw_standard_keywords[call.key]
            p == FromStr(call.ty, v.value)
        IN  /\ p.ok => (v.status.tag = "Used" /\ call.ret = Some(p.val))
            /\ (~p.ok /\ call.kind = "required") =>
                    (v.status.tag = "Error" /\ ~call.ret.some)
            /\ (~p.ok /\ call.kind = "optional") =>
                    (v.status.tag = "Warning" /\ ~call.ret.some)

\* an optional lookup has just failed to parse a Raw value
C3_Witness ==
    /\ call.kind = "optional" /\ call.pre = "Raw"
    /\ raw_standard_keywords[call.key].status.tag = "Warning"
    /\ ~call.ret.some

\* C4: a lookup of a keyword whose status is no longer Raw returns empty and
\* leaves the whole KwState as it was: that key, the other keys, the
\* missing-key list and every diagnostic buffer.
C4_LaterLookupsChangeNothing ==
    [][(call'.n = call.n + 1 /\ call'.pre \in {"Used", "Error", "Warning"}) =>
            /\ ~call'.ret.some
            /\ raw_standard_keywords' = raw_standard_keywords
            /\ raw_nonstandard_keywords' = raw_nonstandard_keywords
            /\ missing_keywords' = missing_keywords
            /\ deprecated_keys' = deprecated_keys
            /\ deprecated_features' = deprecated_features
            /\ meta_errors' = meta_errors
            /\ meta_warnings' = meta_warnings]_vars

\* a keyword that had already failed in an earlier lookup was looked up again
\* after other lookups had recorded a missing key
C4_Witness ==
    /\ call.n >= 3
    /\ call.pre = "Error"
    /\ missing_keywords # <<>>

(***************************************************************************)
(* TEXT interpretation: StdText::raw_to_std_text (src/api.rs).             *)
(*                                                                         *)
(* The keywords modelled are the required ones of every version, $TR,      *)
(* $TIMESTEP and the optional keywords whose values are text or plain      *)
(* numbers.  The optional keywords with structured values (dates, times,   *)
(* $SPILLOVER, $COMP, $PnCALIBRATION, ...) are in none of the TEXTs        *)
(* enumerated, and the lookup of an absent optional keyword changes        *)
(* nothing, so their lookups are left out.                                 *)
(***************************************************************************)
Versions == {"FCS2.0", "FCS3.0", "FCS3.1", "FCS3.2"}
AtLeast3_0(v) == v \in {"FCS3.0", "FCS3.1", "FCS3.2"}
AtLeast3_1(v) == v \in {"FCS3.1", "FCS3.2"}

\* the optional lookups of the sequence los, one after the other; each is
\* <<name, n, dep, type>> and none of the values is used by the caller
RECURSIVE lookup_optionals(_, _)
lookup_optionals(st, los) ==
    IF los = <<>> THEN st
    ELSE lookup_optionals(
            lookup_optional(st, Key(los[1][1], los[1][2]), los[1][3], los[1][4]).st,
            Tail(los))

time_name_matches(conf, name) ==
    conf.time_shortname.some /\ conf.time_shortname.val = name

lookup_meas_gain_timecheck(st, conf, n, name) ==
    Let(lookup_optional(st, Key("$PnG", n), FALSE, "f32"), LAMBDA gain :
        IF gain.ret.some /\ time_name_matches(conf, name) /\ gain.ret.val # N(1)
        THEN Ret(IF conf.ensure_time_nogain
                 THEN push_meta_error(gain.st, "Time channel must not have $PnG")
                 ELSE push_meta_warning(gain.st,
                        "Time channel should not have $PnG, dropping $PnG"),
                 Absent)
        ELSE gain)

lookup_meas_gain_timecheck_opt(st, conf, n, name) ==
    IF name.some THEN lookup_meas_gain_timecheck(st, conf, n, name.val)
    ELSE lookup_optional(st, Key("$PnG", n), FALSE, "f32")

lookup_meas_scale_timecheck(st, conf, n, name) ==
    Let(lookup_required(st, Key("$PnE", n), FALSE, "Scale"), LAMBDA scale :
        IF /\ scale.ret.some
           /\ time_name_matches(conf, name)
           /\ scale.ret.val # Scale_Linear
           /\ conf.ensure_time_linear
        THEN Ret(push_meta_error(scale.st, "Time channel must have linear $PnE"), None)
        ELSE scale)

lookup_meas_scale_timecheck_opt(st, conf, n, name) ==
    IF name.some THEN lookup_meas_scale_timecheck(st, conf, n, name.val)
    ELSE lookup_required(st, Key("$PnE", n), FALSE, "Scale")

\* the version's part of a measurement
InnerMeasurement(shortname, scale, gain, datatype) ==
    [shortname |-> shortname, scale |-> scale, gain |-> gain, datatype |-> datatype]

\* InnerMeasurementX::lookup_specific: a failed required lookup returns at
\* once (the ? operator), before the lookups that follow it
lookup_specific_measurement(st, conf, v, n) ==
    CASE v = "FCS2.0" ->
            Let(lookup_optional(st, Key("$PnE", n), FALSE, "Scale"), LAMBDA scale :
            Let(lookup_optional(scale.st, Key("$PnN", n), FALSE, "Shortname"),
                LAMBDA shortname :
                Ret(lookup_optional(shortname.st, Key("$PnL", n), FALSE, "u32").st,
                    Some(InnerMeasurement(shortname.ret, scale.ret, Absent, Absent)))))
      [] v = "FCS3.0" ->
            Let(lookup_optional(st, Key("$PnN", n), FALSE, "Shortname"), LAMBDA shortname :
            Let(lookup_meas_scale_timecheck_opt(shortname.st, conf, n, shortname.ret),
                LAMBDA scale :
                IF ~scale.ret.some THEN Ret(scale.st, None)
                ELSE Let(lookup_meas_gain_timecheck_opt(scale.st, conf, n, shortname.ret),
                         LAMBDA gain :
                         Ret(lookup_optional(gain.st, Key("$PnL", n), FALSE, "u32").st,
                             Some(InnerMeasurement(shortname.ret, scale.ret, gain.ret,
                                                   Absent))))))
      [] v = "FCS3.1" ->
            Let(lookup_required(st, Key("$PnN", n), FALSE, "Shortname"), LAMBDA shortname :
                IF ~shortname.ret.some THEN Ret(shortname.st, None)
                ELSE Let(lookup_meas_scale_timecheck(shortname.st, conf, n,
                                                     shortname.ret.val),
                         LAMBDA scale :
                         IF ~scale.ret.some THEN Ret(scale.st, None)
                         ELSE Let(lookup_meas_gain_timecheck(scale.st, conf, n,
                                                             shortname.ret.val),
                                  LAMBDA gain :
                                  Ret(gain.st,
                                      Some(InnerMeasurement(shortname.ret, scale.ret,
                                                            gain.ret, Absent))))))
      [] v = "FCS3.2" ->
            Let(lookup_required(st, Key("$PnN", n), FALSE, "Shortname"), LAMBDA shortname :
                IF ~shortname.ret.some THEN Ret(shortname.st, None)
                ELSE Let(lookup_meas_gain_timecheck(shortname.st, conf, n,
                                                    shortname.ret.val),
                         LAMBDA gain :
                         Let(lookup_meas_scale_timecheck(gain.st, conf, n,
                                                         shortname.ret.val),
                             LAMBDA scale :
                             IF ~scale.ret.some THEN Ret(scale.st, None)
                             ELSE Let(lookup_optional(
                                        lookup_optionals(scale.st,
                                            << <<"$PnDET", n, FALSE, "String">>,
                                               <<"$PnTAG", n, FALSE, "String">>,
                                               <<"$PnANALYTE", n, FALSE, "String">> >>),
                                        Key("$PnDATATYPE", n), FALSE, "NumType"),
                                      LAMBDA datatype :
                                      Ret(datatype.st,
                                          Some(InnerMeasurement(shortname.ret, scale.ret,
                                                                gain.ret,
                                                                datatype.ret)))))))

\* lookup of measurement n: $PnB, $PnR and the version's part are looked up
\* in any case, the rest only when all three came out
lookup_measurement(st, conf, v, n, overflow_checks) ==
    Let(lookup_required(st, Key("$PnB", n), FALSE, "Bytes"), LAMBDA maybe_bytes :
    Let(lookup_required(maybe_bytes.st, Key("$PnR", n), FALSE,
                        IF overflow_checks THEN "Range, overflow checks" ELSE "Range"),
        LAMBDA maybe_range :
    Let(lookup_specific_measurement(maybe_range.st, conf, v, n), LAMBDA maybe_specific :
        IF maybe_bytes.ret.some /\ maybe_range.ret.some /\ maybe_specific.ret.some
        THEN Ret(lookup_optionals(maybe_specific.st,
                    << <<"$PnS", n, FALSE, "String">>,
                       <<"$PnF", n, FALSE, "String">>,
                       <<"$PnO", n, FALSE, "u32">>,
                       <<"$PnT", n, FALSE, "String">>,
                       <<"$PnP", n, v = "FCS3.2", "u32">>,
                       <<"$PnV", n, FALSE, "f32">> >>),
                 Some([bytes |-> maybe_bytes.ret.val,
                       range |-> maybe_range.ret.val,
                       specific |-> maybe_specific.ret.val]))
        ELSE Ret(maybe_specific.st, None))))

\* the loop of lookup_measurements over n = from..par: the state after it and
\* the measurements pushed
RECURSIVE lookup_measurements_from(_, _, _, _, _, _, _)
lookup_measurements_from(st, conf, v, n, par, ps, overflow_checks) ==
    IF n > par THEN Ret(st, ps)
    ELSE Let(lookup_measurement(st, conf, v, n, overflow_checks), LAMBDA p :
             lookup_measurements_from(p.st, conf, v, n + 1, par,
                IF p.ret.some THEN Append(ps, p.ret.val) ELSE ps, overflow_checks))

\* VersionedMeasurement::measurement_name over a list of measurements
measurement_names(ps) ==
    [i \in {j \in 1..Len(ps) : ps[j].specific.shortname.some}
        |-> ps[i].specific.shortname.val]

\* the time channel of the configuration must be among the names
check_time_name(st, conf, names) ==
    IF /\ conf.time_shortname.some
       /\ \A i \in DOMAIN names : names[i] # conf.time_shortname.val
    THEN push_meta_error_or_warning(st, conf.ensure_time, "Channel not found for time")
    ELSE st

\* the names must differ from one another
check_unique(st, ps, names) ==
    IF \E i, j \in DOMAIN names : i # j /\ names[i] = names[j]
    THEN Ret(push_meta_error(st, "$PnN are not all unique"), None)
    ELSE Ret(st, Some(ps))

lookup_measurements(st, conf, v, par, overflow_checks) ==
    Let(lookup_measurements_from(st, conf, v, 1, par, <<>>, overflow_checks),
        LAMBDA loop :
        check_unique(check_time_name(loop.st, conf, measurement_names(loop.ret)),
                     loop.ret, measurement_names(loop.ret)))

(***************************************************************************)
(* VersionedReadData::lookup: offsets, $NEXTDATA and $TOT.                 *)
(***************************************************************************)
Segment(begin, end) == [begin |-> begin, end |-> end]
is_unset(seg) == seg.begin = 0 /\ seg.end = 0
num_bytes(seg) == (seg.end - seg.begin) + 1

\* Segment::try_new on two offsets that fit u32
build_offsets(st, begin, end) ==
    IF begin.k = "n" /\ end.k = "n" /\ begin.n > end.n
    THEN Ret(push_meta_error(st, "segment begins after it ends"), None)
    ELSE Ret(st, Some(Segment(begin.n, end.n)))

\* lookup_data_offsets, lookup_stext_offsets, lookup_analysis_offsets: the
\* end key is looked up only when the begin key came out
lookup_offsets(st, beginkey, endkey) ==
    Let(lookup_required(st, Key(beginkey, 0), FALSE, "u32"), LAMBDA begin :
        IF ~begin.ret.some THEN Ret(begin.st, None)
        ELSE Let(lookup_required(begin.st, Key(endkey, 0), FALSE, "u32"), LAMBDA end :
                 IF ~end.ret.some THEN Ret(end.st, None)
                 ELSE build_offsets(end.st, begin.ret.val, end.ret.val)))

lookup_supplemental3_0(st) ==
    Let(lookup_offsets(st, "$BEGINSTEXT", "$ENDSTEXT"), LAMBDA stext :
        IF ~stext.ret.some THEN Ret(stext.st, None)
        ELSE Let(lookup_offsets(stext.st, "$BEGINANALYSIS", "$ENDANALYSIS"),
                 LAMBDA analysis :
                 IF ~analysis.ret.some THEN Ret(analysis.st, None)
                 ELSE Ret(analysis.st,
                          Some([stext |-> stext.ret, analysis |-> analysis.ret]))))

lookup_supplemental3_2(st) ==
    Let(lookup_offsets(st, "$BEGINSTEXT", "$ENDSTEXT"), LAMBDA stext :
    Let(lookup_offsets(stext.st, "$BEGINANALYSIS", "$ENDANALYSIS"), LAMBDA analysis :
        Ret(analysis.st, Some([stext |-> stext.ret, analysis |-> analysis.ret]))))

InnerReadData(data, tot) == [data |-> data, tot |-> tot]

lookup_inner(st, v) ==
    IF v = "FCS2.0"
    THEN Let(lookup_optional(st, Key("$TOT", 0), FALSE, "u32"), LAMBDA tot :
             Ret(tot.st, Some(InnerReadData(None, tot.ret))))
    ELSE Let(lookup_offsets(st, "$BEGINDATA", "$ENDDATA"), LAMBDA data :
             IF ~data.ret.some THEN Ret(data.st, None)
             ELSE Let(IF v = "FCS3.2" THEN lookup_supplemental3_2(data.st)
                      ELSE lookup_supplemental3_0(data.st),
                      LAMBDA supplemental :
                      IF ~supplemental.ret.some THEN Ret(supplemental.st, None)
                      ELSE Let(lookup_required(supplemental.st, Key("$TOT", 0),
                                               FALSE, "u32"),
                               LAMBDA tot :
                               IF ~tot.ret.some THEN Ret(tot.st, None)
                               ELSE Ret(tot.st,
                                        Some(InnerReadData(data.ret, tot.ret))))))

ReadData_lookup(st, v, par) ==
    Let(lookup_required(st, Key("$NEXTDATA", 0), FALSE, "u32"), LAMBDA nextdata :
        IF ~nextdata.ret.some THEN Ret(nextdata.st, None)
        ELSE Let(lookup_inner(nextdata.st, v), LAMBDA specific :
                 IF ~specific.ret.some THEN Ret(specific.st, None)
                 ELSE Ret(specific.st,
                          Some([par |-> par, nextdata |-> nextdata.ret.val,
                                specific |-> specific.ret.val]))))

\* VersionedReadData::data_offsets
data_offsets(rd, v, o) ==
    IF v = "FCS2.0" \/ ~is_unset(o) THEN o ELSE rd.specific.data.val

(***************************************************************************)
(* VersionedMetadata::lookup_metadata.                                     *)
(***************************************************************************)
\* the test is the code's: the error is pushed when the name IS among names
lookup_trigger_checked(st, names) ==
    Let(lookup_optional(st, Key("$TR", 0), FALSE, "Trigger"), LAMBDA tr :
        IF tr.ret.some
        THEN IF tr.ret.val.measurement \in names
             THEN Ret(push_meta_error(tr.st,
                        "$TRIGGER refers to non-existent measurements"), Absent)
             ELSE tr
        ELSE Ret(tr.st, Absent))

lookup_timestep_checked(st, conf, names) ==
    Let(lookup_optional(st, Key("$TIMESTEP", 0), FALSE, "f32"), LAMBDA ts :
        IF /\ conf.time_shortname.some
           /\ conf.time_shortname.val \in names
           /\ ~ts.ret.some
        THEN IF conf.ensure_time_timestep
             THEN push_meta_error(ts.st, "$TIMESTEP must be present if time channel given")
             ELSE push_meta_warning(ts.st, "$TIMESTEP must be present if time channel given")
        ELSE ts.st)

\* lookup_compensation_2_0: the keys DFC{c}TO{r} for r, c in 0..par-1, the
\* i-th of the loop being numbered i
DFCKeys(par) == [i \in 1..(par * par) |-> <<"DFCcTOr", i, FALSE, "f32">>]

\* format!("DFC{c}TO{r}") for the loop indices the code formats
Digits == <<"0", "1", "2", "3">>
DFC(c, r) == "DFC" \o Digits[c + 1] \o "TO" \o Digits[r + 1]

\* lookup_compensation_2_0: for r in 0..par, for c in 0..par, the key
\* DFC{c}TO{r} is looked up as an optional f32; a Present value fills
\* matrix[r][c], anything else sets any_error; Absent if any_error, else the
\* matrix (here row-major, cell i holding matrix[i / par][i % par])
RECURSIVE lookup_compensation_from(_, _, _, _, _)
lookup_compensation_cell(look, par, i, matrix, any_error) ==
    lookup_compensation_from(look.st, par, i + 1,
        Append(matrix, IF look.ret.some THEN look.ret.val ELSE N(0)),
        any_error \/ ~look.ret.some)
lookup_compensation_from(st, par, i, matrix, any_error) ==
    IF i >= par * par
    THEN Ret(st, IF any_error THEN Absent ELSE Present(matrix))
    ELSE lookup_compensation_cell(
            lookup_optional(st, Key(DFC(i % par, i \div par), 0), FALSE, "f32"),
            par, i, matrix, any_error)
lookup_compensation_2_0(st, par) == lookup_compensation_from(st, par, 0, <<>>, FALSE)

push_meta_deprecated_str(st, msg) ==
    [st EXCEPT !.deprecated_features = Append(@, msg)]

\* InnerMetadataX::lookup_specific: the byte order, or None
lookup_specific_metadata(st, conf, v, par, names) ==
    CASE v \in {"FCS2.0", "FCS3.0"} ->
            Let(lookup_required(st, Key("$MODE", 0), FALSE, "Mode"), LAMBDA maybe_mode :
            Let(lookup_required(maybe_mode.st, Key("$BYTEORD", 0), FALSE, "ByteOrd"),
                LAMBDA maybe_byteord :
                IF maybe_mode.ret.some /\ maybe_byteord.ret.some
                THEN Ret(IF v = "FCS2.0"
                         THEN lookup_optionals(maybe_byteord.st,
                                << <<"$CYT", 0, FALSE, "String">> >> \o DFCKeys(par))
                         ELSE lookup_timestep_checked(
                                lookup_optionals(maybe_byteord.st,
                                    << <<"$CYT", 0, FALSE, "String">>,
                                       <<"$CYTSN", 0, FALSE, "String">> >>),
                                conf, names),
                         Some(maybe_byteord.ret.val))
                ELSE Ret(maybe_byteord.st, None)))
      [] v = "FCS3.1" ->
            Let(lookup_required(st, Key("$MODE", 0), FALSE, "Mode"), LAMBDA maybe_mode :
            Let(lookup_required(maybe_mode.st, Key("$BYTEORD", 0), FALSE, "Endian"),
                LAMBDA maybe_byteord :
                IF maybe_mode.ret.some /\ maybe_byteord.ret.some
                THEN Ret(lookup_optionals(
                            lookup_timestep_checked(
                                lookup_optionals(
                                    IF maybe_mode.ret.val # "List"
                                    THEN push_meta_deprecated_str(maybe_byteord.st,
                                            "$MODE should only be L")
                                    ELSE maybe_byteord.st,
                                    << <<"$CYT", 0, FALSE, "String">>,
                                       <<"$CYTSN", 0, FALSE, "String">> >>),
                                conf, names),
                            << <<"$LAST_MODIFIER", 0, FALSE, "String">>,
                               <<"$PLATEID", 0, FALSE, "String">>,
                               <<"$PLATENAME", 0, FALSE, "String">>,
                               <<"$WELLID", 0, FALSE, "String">>,
                               <<"$VOL", 0, FALSE, "f32">> >>),
                         Some(ByteOrd_Endian(maybe_byteord.ret.val)))
                ELSE Ret(maybe_byteord.st, None)))
      [] v = "FCS3.2" ->
            Let(lookup_required(lookup_optional(st, Key("$MODE", 0), TRUE, "Mode3_2").st,
                                Key("$BYTEORD", 0), FALSE, "Endian"),
                LAMBDA maybe_byteord :
            Let(lookup_required(maybe_byteord.st, Key("$CYT", 0), FALSE, "String"),
                LAMBDA maybe_cyt :
                IF maybe_byteord.ret.some /\ maybe_cyt.ret.some
                THEN Ret(lookup_optionals(
                            lookup_timestep_checked(
                                lookup_optionals(maybe_cyt.st,
                                    << <<"$CYTSN", 0, FALSE, "String">> >>),
                                conf, names),
                            << <<"$LAST_MODIFIER", 0, FALSE, "String">>,
                               <<"$PLATEID", 0, TRUE, "String">>,
                               <<"$PLATENAME", 0, TRUE, "String">>,
                               <<"$WELLID", 0, TRUE, "String">>,
                               <<"$VOL", 0, FALSE, "f32">>,
                               <<"$CARRIERID", 0, FALSE, "String">>,
                               <<"$CARRIERTYPE", 0, FALSE, "String">>,
                               <<"$LOCATIONID", 0, FALSE, "String">>,
                               <<"$UNSTAINEDINFO", 0, FALSE, "String">>,
                               <<"$FLOWRATE", 0, FALSE, "String">> >>),
                         Some(ByteOrd_Endian(maybe_byteord.ret.val)))
                ELSE Ret(maybe_cyt.st, None)))

\* the set of the measurements' names
name_set(ms) == {ms[i].specific.shortname.val :
                    i \in {j \in 1..Len(ms) : ms[j].specific.shortname.some}}

lookup_metadata(st, conf, v, ms) ==
    Let(lookup_required(st, Key("$DATATYPE", 0), FALSE, "AlphaNumType"),
        LAMBDA maybe_datatype :
    Let(lookup_specific_metadata(maybe_datatype.st, conf, v, Len(ms), name_set(ms)),
        LAMBDA maybe_specific :
        IF maybe_datatype.ret.some /\ maybe_specific.ret.some
        THEN Let(lookup_trigger_checked(
                    lookup_optionals(maybe_specific.st,
                        << <<"$ABRT", 0, FALSE, "u32">>,
                           <<"$COM", 0, FALSE, "String">>,
                           <<"$CELLS", 0, FALSE, "String">>,
                           <<"$EXP", 0, FALSE, "String">>,
                           <<"$FIL", 0, FALSE, "String">>,
                           <<"$INST", 0, FALSE, "String">>,
                           <<"$LOST", 0, FALSE, "u32">>,
                           <<"$OP", 0, FALSE, "String">>,
                           <<"$PROJ", 0, FALSE, "String">>,
                           <<"$SMNO", 0, FALSE, "String">>,
                           <<"$SRC", 0, FALSE, "String">>,
                           <<"$SYS", 0, FALSE, "String">> >>),
                    name_set(ms)),
                 LAMBDA tr :
                 Ret(tr.st, Some([datatype |-> maybe_datatype.ret.val,
                                  byteord |-> maybe_specific.ret.val,
                                  tr |-> tr.ret])))
        ELSE Ret(maybe_specific.st, None)))

(***************************************************************************)
(* The read plan for DATA: VersionedMetadata::build_data_parser.  The      *)
(* state threaded through is the StdTEXTErrors of DataParserState.         *)
(***************************************************************************)
\* the planner was stopped by a panic
Aborted == [some |-> FALSE, val |-> PANIC]

\* EventWidth: the fixed widths, and the indices of both kinds
event_width(ms) ==
    IF \A i \in 1..Len(ms) : ms[i].bytes.fixed THEN "Finite"
    ELSE IF \A i \in 1..Len(ms) : ~ms[i].bytes.fixed THEN "Variable"
    ELSE "Error"

RECURSIVE SumBytes(_, _)
SumBytes(ms, i) == IF i > Len(ms) THEN 0 ELSE ms[i].bytes.b + SumBytes(ms, i + 1)

\* push every message of a sequence
RECURSIVE push_meta_errors(_, _)
push_meta_errors(s, msgs) ==
    IF msgs = <<>> THEN s ELSE push_meta_errors(push_meta_error(s, msgs[1]), Tail(msgs))

\* the closure of total_events: the events x that fit DATA against $TOT
check_tot(s, conf, x, tot) ==
    Ret(IF tot.some /\ N(x) # tot.val
        THEN push_meta_error_or_warning(s, conf.enfore_matching_tot,
                "$TOT differs from the events in DATA")
        ELSE s,
        Some(x))

\* nbytes % event_width panics on a divisor of zero
total_events(s, conf, nbytes, width, tot) ==
    IF width = 0 THEN Ret(s, Aborted)
    ELSE IF nbytes % width > 0
         THEN IF conf.enfore_data_width_divisibility
              THEN Ret(push_meta_error(s, "Events do not evenly divide DATA"), None)
              ELSE check_tot(push_meta_warning(s, "Events do not evenly divide DATA"),
                             conf, nbytes \div width, tot)
         ELSE check_tot(s, conf, nbytes \div width, tot)

ByteOrd_num_bytes(byteord) == IF byteord.endian THEN 4 ELSE Len(byteord.order)

bytes_eq(p, b) == p.bytes.fixed /\ p.bytes.b = b

\* byteord_to_sized::<LEN>: the error, if any
byteord_to_sized(byteord, len) ==
    IF byteord.endian \/ Len(byteord.order) = len THEN <<>>
    ELSE <<"$BYTEORD is mixed but its length is not that of the column">>

\* make_int_parser: the errors, none when the column parser is made
make_int_parser(b, range, byteord) ==
    IF b \notin 1..8 THEN <<"$PnB has invalid byte length">>
    ELSE (IF range.int THEN <<>> ELSE <<"PnR is float for an integer column">>)
         \o byteord_to_sized(byteord, b)

RECURSIVE Flatten(_)
Flatten(ss) == IF ss = <<>> THEN <<>> ELSE ss[1] \o Flatten(Tail(ss))

Plan(kind, ncols, nrows) == [kind |-> kind, ncols |-> ncols, nrows |-> nrows]

\* the plan, or the errors pushed when there are any
plan_or_errors(s, errors, plan) ==
    IF errors = <<>> THEN Ret(s, Some(plan)) ELSE Ret(push_meta_errors(s, errors), None)

build_int_parser_2_0(s, byteord, ps, total) ==
    IF \A i \in 1..Len(ps) : bytes_eq(ps[i], ByteOrd_num_bytes(byteord))
    THEN plan_or_errors(s,
            Flatten([i \in 1..Len(ps) |->
                        IF ps[i].bytes.fixed
                        THEN make_int_parser(ps[i].bytes.b, ps[i].range, byteord)
                        ELSE <<"PnB is variable length">>]),
            Plan("Int", Len(ps), Some(total)))
    ELSE Ret(push_meta_errors(s,
                [i \in 1..Cardinality({j \in 1..Len(ps) :
                                        ~bytes_eq(ps[j], ByteOrd_num_bytes(byteord))}) |->
                    "Measurement width differs from the bytes BYTEORD implies"]),
             None)

\* the filter is the code's: it keeps the measurements whose width IS bytes
build_float_parser(s, is_double, par, total, ps, byteord) ==
    IF \A i \in 1..Len(ps) : ~bytes_eq(ps[i], IF is_double THEN 8 ELSE 4)
    THEN plan_or_errors(s, byteord_to_sized(byteord, IF is_double THEN 8 ELSE 4),
            Plan(IF is_double THEN "Double" ELSE "Single", par, Some(total)))
    ELSE Ret(push_meta_errors(s,
                [i \in 1..Cardinality({j \in 1..Len(ps) :
                                        bytes_eq(ps[j], IF is_double THEN 8 ELSE 4)}) |->
                    "Measurement width differs from DATATYPE"]),
             None)

\* the type of a column: its $PnDATATYPE, or else $DATATYPE
column_type(p, dt) == IF p.specific.datatype.some THEN p.specific.datatype.val ELSE dt

\* InnerMetadata3_2::build_mixed_parser: the errors of column i
mixed_column(p, dt, byteord) ==
    IF ~p.bytes.fixed THEN <<"DATATYPE does not fit PnB">>
    ELSE IF column_type(p, dt) = "Ascii" THEN <<>>
    ELSE IF column_type(p, dt) = "Single" /\ p.bytes.b = 4 THEN <<>>
    ELSE IF column_type(p, dt) = "Double" /\ p.bytes.b = 8 THEN <<>>
    ELSE IF column_type(p, dt) = "Integer"
         THEN make_int_parser(p.bytes.b, p.range, byteord)
    ELSE <<"DATATYPE does not fit PnB">>

build_mixed_parser(s, v, ps, dt, byteord, total) ==
    IF v # "FCS3.2" \/ \A i \in 1..Len(ps) : ~ps[i].specific.datatype.some
    THEN Ret(s, None)
    ELSE plan_or_errors(s,
            Flatten([i \in 1..Len(ps) |-> mixed_column(ps[i], dt, byteord)]),
            Plan("Mixed", Len(ps), Some(total)))

build_fixed_width_parser(s, v, it, total) ==
    Let(build_mixed_parser(s, v, it.measurements, it.metadata.datatype,
                           it.metadata.byteord, total),
        LAMBDA mixed :
        IF mixed.ret.some THEN mixed
        ELSE CASE it.metadata.datatype = "Single" ->
                    build_float_parser(mixed.st, FALSE, it.read_data.par, total,
                                       it.measurements, it.metadata.byteord)
               [] it.metadata.datatype = "Double" ->
                    build_float_parser(mixed.st, TRUE, it.read_data.par, total,
                                       it.measurements, it.metadata.byteord)
               [] it.metadata.datatype = "Integer" ->
                    build_int_parser_2_0(mixed.st, it.metadata.byteord,
                                         it.measurements, total)
               [] it.metadata.datatype = "Ascii" ->
                    Ret(mixed.st, Some(Plan("FixedWidthAscii", Len(it.measurements),
                                            Some(total)))))

\* $DATATYPE=A is deprecated from FCS 3.1 on
deprecate_ascii(s, v, dt) ==
    IF dt = "Ascii" /\ AtLeast3_1(v)
    THEN push_meta_deprecated_str(s, "$DATATYPE=A has been deprecated since FCS 3.1")
    ELSE s

build_column_parser(s, conf, v, it, header_data) ==
    CASE event_width(it.measurements) = "Finite" ->
            Let(total_events(deprecate_ascii(s, v, it.metadata.datatype), conf,
                             num_bytes(data_offsets(it.read_data, v, header_data)),
                             SumBytes(it.measurements, 1), it.read_data.specific.tot),
                LAMBDA total :
                IF total.ret.some
                THEN build_fixed_width_parser(total.st, v, it, total.ret.val)
                ELSE total)
      [] event_width(it.measurements) = "Variable" /\ it.metadata.datatype = "Ascii" ->
            Ret(deprecate_ascii(s, v, it.metadata.datatype),
                Some(Plan("DelimitedAscii", it.read_data.par, it.read_data.specific.tot)))
      [] event_width(it.measurements) = "Error" ->
            Ret(push_meta_errors(deprecate_ascii(s, v, it.metadata.datatype),
                    <<"$PnBs are a mix of numeric and variable">>
                    \o [i \in 1..Len(it.measurements) |-> "$PnB is numeric or variable"]),
                None)
      [] OTHER ->
            Ret(push_meta_error(deprecate_ascii(s, v, it.metadata.datatype),
                    "$DATATYPE is numeric but all $PnB are '*'"), None)

(***************************************************************************)
(* The end of interpretation: split_keywords, prune_errors, into_result.   *)
(***************************************************************************)
KeyDiagnostic(kws, k) == [key |-> k, value |-> kws[k].value, msg |-> kws[k].status.msg]

\* the three classes are sets: they are filled in the HashMap's order
split_keywords_losing_raw(kws) ==
    [keyword_errors |-> {KeyDiagnostic(kws, k) : k \in {x \in DOMAIN kws : kws[x].status.tag = "Error"}},
     deviant_keywords |-> [k \in {} |-> kws[k].value],
     keyword_warnings |-> {KeyDiagnostic(kws, k) : k \in {x \in DOMAIN kws : kws[x].status.tag = "Warning"}}]

split_keywords(kws) ==
    [keyword_errors |-> {KeyDiagnostic(kws, k) : k \in {x \in DOMAIN kws : kws[x].status.tag = "Error"}},
     deviant_keywords |-> [k \in {x \in DOMAIN kws : kws[x].status.tag = "Raw"} |-> kws[k].value],
     keyword_warnings |-> {KeyDiagnostic(kws, k) : k \in {x \in DOMAIN kws : kws[x].status.tag = "Warning"}}]

\* the StdTEXTErrors of the DataParserState made from a KwState
into_data_parser_state(st) ==
    LET classes == split_keywords(st.kws)
    IN  [keyword_errors |-> classes.keyword_errors,
         keyword_warnings |-> classes.keyword_warnings,
         deviant_keywords |-> classes.deviant_keywords,
         nonstandard_keywords |-> st.ns,
         missing_keywords |-> st.missing,
         meta_errors |-> st.meta_errors,
         meta_warnings |-> st.meta_warnings,
         deprecated_keys |-> st.deprecated_keys,
         deprecated_features |-> st.deprecated_features]

prune_errors(s, conf) ==
    [s EXCEPT
        !.deviant_keywords = IF ~conf.disallow_deviant THEN [k \in {} |-> <<>>] ELSE @,
        !.nonstandard_keywords = IF ~conf.disallow_nonstandard THEN {} ELSE @,
        !.deprecated_keys = IF ~conf.disallow_deprecated THEN <<>> ELSE @,
        !.deprecated_features = IF ~conf.disallow_deprecated THEN <<>> ELSE @,
        !.meta_warnings = IF ~conf.warnings_are_errors THEN <<>> ELSE @,
        !.keyword_warnings = IF ~conf.warnings_are_errors THEN {} ELSE @]

into_errors(st, conf) == prune_errors(into_data_parser_state(st), conf)

any_crit_but_missing(s) ==
    s.meta_errors # <<>> \/ s.keyword_errors # {}

any_crit(s) ==
    \/ s.missing_keywords # <<>>
    \/ s.meta_errors # <<>>
    \/ s.keyword_errors # {}

any_noncrit(s, conf) ==
    \/ (DOMAIN s.deviant_keywords # {} /\ conf.disallow_deviant)
    \/ (s.nonstandard_keywords # {} /\ conf.disallow_nonstandard)
    \/ (~(s.deprecated_features = <<>> /\ s.deprecated_keys = <<>>)
            /\ conf.disallow_deprecated)
    \/ (~(s.meta_warnings = <<>> /\ s.keyword_warnings = {})
            /\ conf.warnings_are_errors)

\* an Err carries the pruned StdTEXTErrors, an Ok the ParsedTEXT
TEXTResult(ok, s, it, data_parser) ==
    [ok |-> ok, errors |-> s, text |-> it, data_parser |-> data_parser]

into_result(s, conf, it, data_parser) ==
    IF any_crit(s) \/ any_noncrit(s, conf)
    THEN TEXTResult(FALSE, prune_errors(s, conf), None, None)
    ELSE TEXTResult(TRUE, s, Some(it), Some(data_parser))

(***************************************************************************)
(* The TEXTs, headers and configurations interpreted.                      *)
(***************************************************************************)
MaxPar == 2     \* measurements in a TEXT

StdTextReader_default ==
    [warnings_are_errors |-> FALSE, time_shortname |-> None,
     ensure_time |-> FALSE, ensure_time_timestep |-> FALSE,
     ensure_time_linear |-> FALSE, ensure_time_nogain |-> FALSE,
     disallow_deviant |-> FALSE, disallow_deprecated |-> FALSE,
     disallow_nonstandard |-> FALSE,
     enfore_data_width_divisibility |-> FALSE, enfore_matching_tot |-> FALSE]

Shortnames == <<"FSC", "SSC", "FL1", "FL2">>
Shortname_of(n) == <<W(Shortnames[n])>>

Confs ==
    {StdTextReader_default,
     [StdTextReader_default EXCEPT !.disallow_deviant = TRUE],
     [StdTextReader_default EXCEPT !.disallow_nonstandard = TRUE],
     [StdTextReader_default EXCEPT !.disallow_deprecated = TRUE],
     [StdTextReader_default EXCEPT !.warnings_are_errors = TRUE],
     [StdTextReader_default EXCEPT !.enfore_data_width_divisibility = TRUE,
                                   !.enfore_matching_tot = TRUE],
     [StdTextReader_default EXCEPT !.time_shortname = Some(Shortname_of(1)),
                                   !.ensure_time = TRUE,
                                   !.ensure_time_timestep = TRUE,
                                   !.ensure_time_linear = TRUE,
                                   !.ensure_time_nogain = TRUE]}

\* DATA of the well-formed file: two events of MaxPar columns of 4 bytes
DataSegment == Segment(100, 100 + 8 * MaxPar - 1)

\* the keywords of a well-formed TEXT of version v with MaxPar measurements
BaselineKeys(v) ==
    {Key(k, 0) : k \in {"$PAR", "$NEXTDATA", "$DATATYPE", "$BYTEORD", "$TOT"}
                       \cup (IF v = "FCS3.2" THEN {"$CYT"} ELSE {"$MODE"})
                       \cup (IF AtLeast3_0(v)
                             THEN {"$BEGINDATA", "$ENDDATA", "$BEGINSTEXT", "$ENDSTEXT",
                                   "$BEGINANALYSIS", "$ENDANALYSIS"}
                             ELSE {})}
    \cup {Key(k, n) : k \in {"$PnB", "$PnR", "$PnN", "$PnE"}, n \in 1..MaxPar}

BaselineValue(k) ==
    CASE k[1] = "$PAR" -> <<N(MaxPar)>>
      [] k[1] = "$TOT" -> <<N(2)>>
      [] k[1] = "$DATATYPE" -> <<W("I")>>
      [] k[1] = "$BYTEORD" -> <<N(1), N(2), N(3), N(4)>>
      [] k[1] = "$MODE" -> <<W("L")>>
      [] k[1] = "$CYT" -> <<W("cytometer")>>
      [] k[1] = "$BEGINDATA" -> <<N(DataSegment.begin)>>
      [] k[1] = "$ENDDATA" -> <<N(DataSegment.end)>>
      [] k[1] = "$PnB" -> <<N(32)>>
      [] k[1] = "$PnR" -> <<N(1024)>>
      [] k[1] = "$PnN" -> Shortname_of(k[2])
      [] k[1] = "$PnE" -> <<N(0), N(0)>>
      [] OTHER -> <<N(0)>>

Baseline(v) == [k \in BaselineKeys(v) |-> BaselineValue(k)]

\* one departure from the well-formed TEXT: a keyword dropped, or given a value
Drop(k) == [key |-> k, drop |-> TRUE, value |-> <<>>]
Put(name, n, value) == [key |-> Key(name, n), drop |-> FALSE, value |-> value]

Departures(v) ==
    {Drop(k) : k \in BaselineKeys(v) \cup {Key("", 0)}}
    \cup {Put("$PAR", 0, <<N(p)>>) : p \in 0..(MaxPar + 1)}
    \cup {Put("$PAR", 0, <<W("two")>>),
          Put("$TOT", 0, <<W("many")>>), Put("$TOT", 0, <<N(3)>>),
          Put("$DATATYPE", 0, <<W("F")>>), Put("$DATATYPE", 0, <<W("A")>>),
          Put("$DATATYPE", 0, <<W("X")>>),
          Put("$MODE", 0, <<W("C")>>), Put("$MODE", 0, <<W("L")>>),
          Put("$BYTEORD", 0, <<N(4), N(3), N(2), N(1)>>),
          Put("$BYTEORD", 0, <<N(2), N(1)>>),
          Put("$BEGINDATA", 0, <<W("x")>>),
          Put("$ENDDATA", 0, <<N(DataSegment.end + 1)>>),
          Put("$TR", 0, <<W(Shortnames[1]), N(10)>>),
          Put("$TR", 0, <<W("none"), N(10)>>),
          Put("$TR", 0, <<W(Shortnames[1])>>),
          Put("$COM", 0, <<W("hello")>>),
          Put("$ABRT", 0, <<W("x")>>),
          Put("$TIMESTEP", 0, <<N(1)>>),
          Put("$XYZ", 0, <<W("x")>>),
          Put("$DFC1TO1", 0, <<N(1)>>),
          Put("NOTE", 0, <<W("x")>>),
          Put("$PnB", 1, <<W("*")>>), Put("$PnB", 1, <<N(8)>>),
          Put("$PnB", 1, <<N(0)>>), Put("$PnB", 1, <<N(12)>>),
          Put("$PnB", 1, <<N(16)>>), Put("$PnB", 2, <<N(16)>>),
          Put("$PnR", 1, <<N(0)>>), Put("$PnR", 1, <<W("x")>>),
          Put("$PnN", 1, Shortname_of(MaxPar)),
          Put("$PnE", 1, <<N(2), N(1)>>), Put("$PnE", 1, <<W("x")>>),
          Put("$PnG", 1, <<N(2)>>),
          Put("$PnP", 1, <<N(50)>>),
          Put("$PnDATATYPE", 1, <<W("F")>>)}

\* dropping a key that no TEXT has departs from nothing
NoDeparture == Drop(Key("", 0))

Depart(kws, d) ==
    IF d.drop THEN [k \in DOMAIN kws \ {d.key} |-> kws[k]]
    ELSE [k \in DOMAIN kws \cup {d.key} |-> IF k = d.key THEN d.value ELSE kws[k]]

\* the keys that do not start with "$"
NonStdKeys == {Key("NOTE", 0)}

\* the RawTEXT and Header handed to parse_raw_text, with the configuration
RawTEXT(v, conf, kws) ==
    [version |-> v, conf |-> conf,
     standard_keywords |-> [k \in DOMAIN kws \ NonStdKeys |-> kws[k]],
     nonstandard_keywords |-> DOMAIN kws \cap NonStdKeys,
     header_data |-> IF v = "FCS2.0" THEN DataSegment ELSE Segment(0, 0)]

to_state(raw) ==
    [kws |-> [k \in DOMAIN raw.standard_keywords |-> KwValue(raw.standard_keywords[k])],
     ns |-> raw.nonstandard_keywords,
     missing |-> <<>>,
     deprecated_keys |-> <<>>,
     deprecated_features |-> <<>>,
     meta_errors |-> <<>>,
     meta_warnings |-> <<>>]

(***************************************************************************)
(* parse_raw_text, one step per lookup stage.  text is the RawTEXT and the *)
(* configuration; interp holds the stage reached, the values looked up,    *)
(* the StdTEXTErrors before pruning and the result returned.               *)
(***************************************************************************)
Panicked(st) == \E k \in DOMAIN st.kws : st.kws[k].status = ValueStatus_Error(PANIC)

ParsedTEXT(ms, md, rd) == [measurements |-> ms, metadata |-> md, read_data |-> rd]

TextInit ==
    /\ \E v \in Versions, conf \in Confs :
        \E d1 \in Departures(v),
           d2 \in IF conf = StdTextReader_default THEN Departures(v) ELSE {NoDeparture} :
            LET raw == RawTEXT(v, conf, Depart(Depart(Baseline(v), d1), d2))
                st == to_state(raw)
            IN  /\ text = raw
                /\ raw_standard_keywords = st.kws
                /\ raw_nonstandard_keywords = st.ns
                /\ missing_keywords = st.missing
                /\ deprecated_keys = st.deprecated_keys
                /\ deprecated_features = st.deprecated_features
                /\ meta_errors = st.meta_errors
                /\ meta_warnings = st.meta_warnings
    /\ call = Idle
    /\ interp = [pc |-> "to_state", par |-> None, ms |-> None, rd |-> None,
                 md |-> None, comp |-> None, std_errors |-> NoVal,
                 outcome |-> "running", result |-> NoVal]
    /\ res = Idle /\ emitted = <<>> /\ lastOp = Idle
    /\ xs = <<>> /\ conf_raw = Idle /\ split = Idle
    /\ pc = Idle /\ file = Idle /\ readLog = <<>> /\ segs = Idle /\ ints = Idle /\ tv = Idle /\ dat = Idle

TextFrame == UNCHANGED <<accVars, splitVars, fileVars, call, text>>

KwUnchanged ==
    UNCHANGED <<raw_standard_keywords, raw_nonstandard_keywords, missing_keywords,
                deprecated_keys, deprecated_features, meta_errors, meta_warnings>>

\* the state a lookup stage leaves and the value it returns are stored
Looked(r, stage) ==
    /\ SetKwState(r.st)
    /\ interp' = [interp EXCEPT !.pc = stage, ![stage] = r.ret]

\* lookup_par
LookupPar ==
    /\ interp.pc = "to_state"
    /\ Looked(lookup_required(KwState, Key("$PAR", 0), FALSE, "usize"), "par")
    /\ TextFrame

\* the measurements looked up, unless Range::from_str has panicked
LookedUnlessPanicked(r) ==
    IF Panicked(r.st)
    THEN /\ KwUnchanged
         /\ interp' = [interp EXCEPT !.pc = "aborted", !.outcome = "Aborted",
                         !.std_errors = into_data_parser_state(KwState)]
    ELSE Looked(r, "ms")

\* lookup_measurements, in a build with or without overflow checks
LookupMeasurements ==
    /\ interp.pc = "par"
    /\ interp.par.some
    /\ \E overflow_checks \in BOOLEAN :
        LookedUnlessPanicked(lookup_measurements(KwState, text.conf, text.version,
                                                 interp.par.val.n, overflow_checks))
    /\ TextFrame

\* ReadData::lookup
ReadDataLookup ==
    /\ interp.pc = "ms"
    /\ Looked(ReadData_lookup(KwState, text.version, interp.par.val.n), "rd")
    /\ TextFrame

\* ms.as_ref().and_then(lookup_metadata)
\* the compensation InnerMetadata2_0::lookup_specific builds on the way, kept
\* beside the metadata that lookup_metadata returns
Compensation(md) ==
    IF md.some /\ text.version = "FCS2.0"
    THEN lookup_compensation_2_0(KwState, Len(interp.ms.val)).ret
    ELSE None

MetadataLooked(r) ==
    /\ SetKwState(r.st)
    /\ interp' = [interp EXCEPT !.pc = "md", !.md = r.ret, !.comp = Compensation(r.ret)]

LookupMetadata ==
    /\ interp.pc = "rd"
    /\ MetadataLooked(IF interp.ms.some
              THEN lookup_metadata(KwState, text.conf, text.version, interp.ms.val)
              ELSE Ret(KwState, None))
    /\ TextFrame

\* the end of parse_raw_text once build_data_parser has returned dp
Finished(dp, r) ==
    IF ~dp.ret.some /\ dp.ret.val = PANIC
    THEN [interp EXCEPT !.pc = "aborted", !.outcome = "Aborted", !.std_errors = dp.st]
    ELSE [interp EXCEPT !.pc = "done", !.std_errors = dp.st,
                        !.outcome = IF r.ok THEN "Ok" ELSE "Err",
                        !.result = r]

\* into_result on the plan, into_errors without one
ResultOf(dp, conf, it) ==
    Finished(dp, IF dp.ret.some
                 THEN into_result(dp.st, conf, it, dp.ret.val)
                 ELSE TEXTResult(FALSE, prune_errors(dp.st, conf), None, None))

\* all three came out: into_data_parser_state, build_data_parser, and then
\* into_result or into_errors
BuildDataParser ==
    /\ interp.pc = "md"
    /\ interp.ms.some /\ interp.rd.some /\ interp.md.some
    /\ interp' = ResultOf(
            build_column_parser(into_data_parser_state(KwState), text.conf, text.version,
                ParsedTEXT(interp.ms.val, interp.md.val, interp.rd.val),
                text.header_data),
            text.conf,
            ParsedTEXT(interp.ms.val, interp.md.val, interp.rd.val))
    /\ KwUnchanged
    /\ TextFrame

\* $PAR, the measurements, the read data or the metadata did not come out
IntoErrors ==
    /\ \/ interp.pc = "par" /\ ~interp.par.some
       \/ interp.pc = "md" /\ ~(interp.ms.some /\ interp.rd.some /\ interp.md.some)
    /\ interp' = [interp EXCEPT !.pc = "done", !.outcome = "Err",
                     !.std_errors = into_data_parser_state(KwState),
                     !.result = TEXTResult(FALSE, into_errors(KwState, text.conf),
                                           None, None)]
    /\ KwUnchanged
    /\ TextFrame

TextNext ==
    \/ LookupPar
    \/ LookupMeasurements
    \/ ReadDataLookup
    \/ LookupMetadata
    \/ BuildDataParser
    \/ IntoErrors

SpecText == TextInit /\ [][TextNext]_vars

(***************************************************************************)
(* Properties of TEXT interpretation.                                      *)
(***************************************************************************)
\* the value of $PAR in the TEXT, 0 when it is absent or is no number
DeclaredPar ==
    IF Key("$PAR", 0) \in DOMAIN text.standard_keywords
    THEN LET p == FromStr("usize", text.standard_keywords[Key("$PAR", 0)])
         IN  IF p.ok THEN p.val.n ELSE 0
    ELSE 0

\* C2: after interpretation and planning the result is a rejection exactly
\* when (a) a required keyword is missing, (b) a keyword-value or meta error
\* was recorded, or (c) a category promoted by the configuration is
\* non-empty; otherwise it is a success carrying the remaining diagnostics
\* as warnings.
C2_RejectionRule ==
    interp.pc \in {"done", "aborted"} =>
        LET s == interp.std_errors
            c == text.conf
            a == s.missing_keywords # <<>>
            b == s.keyword_errors # {} \/ s.meta_errors # <<>>
            promoted ==
                \/ c.disallow_deviant /\ DOMAIN s.deviant_keywords # {}
                \/ c.disallow_nonstandard /\ s.nonstandard_keywords # {}
                \/ c.disallow_deprecated
                    /\ (s.deprecated_keys # <<>> \/ s.deprecated_features # <<>>)
                \/ c.warnings_are_errors
                    /\ (s.meta_warnings # <<>> \/ s.keyword_warnings # {})
        IN  IF a \/ b \/ promoted
            THEN interp.outcome = "Err"
            ELSE /\ interp.outcome = "Ok"
                 /\ interp.result.errors.meta_warnings = s.meta_warnings
                 /\ interp.result.errors.keyword_warnings = s.keyword_warnings
                 /\ interp.result.errors.deprecated_keys = s.deprecated_keys
                 /\ interp.result.errors.deprecated_features = s.deprecated_features

RequiredKeywords(v, par) ==
    {<<Key("$PAR", 0), "usize">>, <<Key("$NEXTDATA", 0), "u32">>,
     <<Key("$DATATYPE", 0), "AlphaNumType">>,
     <<Key("$BYTEORD", 0), IF AtLeast3_1(v) THEN "Endian" ELSE "ByteOrd">>}
    \cup (IF v = "FCS3.2" THEN {<<Key("$CYT", 0), "String">>}
          ELSE {<<Key("$MODE", 0), "Mode">>})
    \cup (IF AtLeast3_0(v)
          THEN {<<Key("$BEGINDATA", 0), "u32">>, <<Key("$ENDDATA", 0), "u32">>,
                <<Key("$TOT", 0), "u32">>}
          ELSE {})
    \cup {<<Key("$PnB", n), "Bytes">> : n \in 1..par}
    \cup {<<Key("$PnR", n), "Range">> : n \in 1..par}
    \cup (IF AtLeast3_0(v) THEN {<<Key("$PnE", n), "Scale">> : n \in 1..par} ELSE {})
    \cup (IF AtLeast3_1(v) THEN {<<Key("$PnN", n), "Shortname">> : n \in 1..par} ELSE {})

\* C7: a rejection reports every required keyword of the version that the
\* TEXT lacks, and every one whose value is invalid.
C7_EveryRequiredReported ==
    (interp.pc = "done" /\ interp.outcome = "Err") =>
        \A r \in RequiredKeywords(text.version, DeclaredPar) :
            IF r[1] \in DOMAIN text.standard_keywords
            THEN ~FromStr(r[2], text.standard_keywords[r[1]]).ok =>
                    \E e \in interp.result.errors.keyword_errors : e.key = r[1]
            ELSE \E i \in DOMAIN interp.result.errors.missing_keywords :
                    interp.result.errors.missing_keywords[i] = r[1]

\* C8: a successful interpretation has as many measurements as $PAR says.
C8_MeasurementsEqualPar ==
    interp.outcome = "Ok" =>
        /\ Key("$PAR", 0) \in DOMAIN text.standard_keywords
        /\ text.standard_keywords[Key("$PAR", 0)]
                = <<N(Len(interp.result.text.val.measurements))>>

\* a success on a TEXT that has the keywords of more measurements than $PAR
C8_Witness ==
    /\ interp.outcome = "Ok"
    /\ Len(interp.result.text.val.measurements) >= 1
    /\ Key("$PnB", Len(interp.result.text.val.measurements) + 1)
            \in DOMAIN text.standard_keywords

\* C9: with a well-formed $TR, a meta error is recorded when its measurement
\* name is the $PnN of no parsed measurement; when it is the $PnN of one, no
\* error is recorded and the trigger is kept as Present.
C9_TriggerChecked ==
    (/\ interp.pc = "md"
     /\ interp.md.some
     /\ Key("$TR", 0) \in DOMAIN text.standard_keywords
     /\ Trigger_from_str(text.standard_keywords[Key("$TR", 0)]).ok) =>
        LET tr == Trigger_from_str(text.standard_keywords[Key("$TR", 0)]).val
            ms == interp.ms.val
            names == {ms[i].specific.shortname.val :
                        i \in {j \in 1..Len(ms) : ms[j].specific.shortname.some}}
            recorded == \E i \in DOMAIN meta_errors :
                            meta_errors[i] = "$TRIGGER refers to non-existent measurements"
        IN  IF tr.measurement \in names
            THEN ~recorded /\ interp.md.val.tr = Present(tr)
            ELSE recorded

(***************************************************************************)
(* Splitting TEXT into key/value pairs: verify_delim and split_raw_text.   *)
(* A TEXT is a sequence of bytes, each written as a one-character string;  *)
(* a word is a sequence of bytes too.                                      *)
(***************************************************************************)
MaxText == 8    \* bytes in a TEXT

\* the bytes that occur in the TEXTs split, with their codes
Code(c) ==
    CASE c = " " -> 32 [] c = "$" -> 36 [] c = "," -> 44
      [] c = "A" -> 65 [] c = "C" -> 67 [] c = "I" -> 73 [] c = "K" -> 75
      [] c = "T" -> 84 [] c = "Y" -> 89
      [] c = "c" -> 99 [] c = "e" -> 101 [] c = "k" -> 107 [] c = "m" -> 109
      [] c = "n" -> 110
      [] c = "NUL" -> 0 [] c = "DEL" -> 127 [] c = "0x80" -> 128

\* str::to_uppercase on these bytes
to_uppercase_byte(c) ==
    IF Code(c) \in 97..122
    THEN CHOOSE u \in {"C", "E", "K", "M", "N"} :
            u = (CASE c = "c" -> "C" [] c = "e" -> "E" [] c = "k" -> "K"
                   [] c = "m" -> "M" [] c = "n" -> "N")
    ELSE c

to_uppercase(s) == [i \in 1..Len(s) |-> to_uppercase_byte(s[i])]

\* str::replace of two delimiters by one, left to right
RECURSIVE replace(_, _)
replace(s, delim) ==
    IF s = <<>> THEN <<>>
    ELSE IF Len(s) >= 2 /\ s[1] = delim /\ s[2] = delim
    THEN <<delim>> \o replace(SubSeq(s, 3, Len(s)), delim)
    ELSE <<s[1]>> \o replace(Tail(s), delim)

push_msg_leveled(self, msg, is_error) ==
    PureSuccess_push(self, [msg |-> msg, level |-> IF is_error THEN "Error" ELSE "Warning"])

push_error(self, msg) == push_msg_leveled(self, msg, TRUE)

RawTextReader_default ==
    [no_delim_escape |-> FALSE, force_ascii_delim |-> FALSE,
     enforce_final_delim |-> FALSE, enfore_keyword_ascii |-> FALSE,
     enforce_nonempty |-> FALSE, error_on_invalid_utf8 |-> FALSE,
     enforce_even |-> FALSE, enforce_unique |-> FALSE]

RawConfs ==
    {[RawTextReader_default EXCEPT !.no_delim_escape = a, !.enforce_even = b,
                                   !.enforce_nonempty = c] :
        a \in BOOLEAN, b \in BOOLEAN, c \in BOOLEAN}
    \cup {[RawTextReader_default EXCEPT !.force_ascii_delim = TRUE],
          [RawTextReader_default EXCEPT !.enforce_final_delim = TRUE],
          [RawTextReader_default EXCEPT !.enforce_unique = TRUE]}

\* String::from_utf8 of one byte: it is valid UTF-8 exactly when below 128
from_utf8_is_err(byte) == Code(byte) >= 128

verify_delim(bytes, conf) ==
    LET delimiter == bytes[1]
        res0 == PureSuccess_from(<<delimiter>>)
        res1 == IF from_utf8_is_err(delimiter)
                THEN push_error(res0, "Delimiter is not a valid utf8 character")
                ELSE res0
    IN  IF Code(delimiter) \notin 1..126
        THEN push_msg_leveled(res1, "Delimiter is not an ASCII character b/t 1-126",
                              conf.force_ascii_delim)
        ELSE res1

\* the positions of the delimiter, counted from 0
delim_positions(bytes, delim) ==
    SelectSeq([i \in 1..Len(bytes) |-> i - 1], LAMBDA p : bytes[p + 1] = delim)

\* windows(2) of the positions, as (position, length to the next delimiter)
raw_boundaries(ps) == [i \in 1..(Len(ps) - 1) |-> <<ps[i], ps[i + 1] - ps[i]>>]

\* chunk_by: the last index of the chunk of equal lengths that starts at i
RECURSIVE chunk_end(_, _)
chunk_end(bs, i) ==
    IF i < Len(bs) /\ bs[i + 1][2] = bs[i][2] THEN chunk_end(bs, i + 1) ELSE i

\* the loop over the chunks: a chunk of length-1 boundaries is dropped, and
\* DelimAtBoundary is pushed when it has an odd number of them
RECURSIVE filtered_boundaries(_, _, _)
filtered_boundaries(bs, i, acc) ==
    IF i > Len(bs) THEN acc
    ELSE LET j == chunk_end(bs, i)
         IN  IF bs[i][2] = 1
             THEN filtered_boundaries(bs, j + 1,
                    [acc EXCEPT !.out = IF (j - i + 1) % 2 = 1
                                        THEN push_error(@, "DelimAtBoundary")
                                        ELSE @])
             ELSE filtered_boundaries(bs, j + 1,
                    [acc EXCEPT !.kept = @ \o SubSeq(bs, i, j)])

\* !x on usize is the bitwise complement, 2^64 - 1 - x; it is congruent to
\* -(x + 1) and so is never the index of a byte
not_usize(x) == -(x + 1)

\* the loop over final_boundaries.chunks(2), from chunk i on
RECURSIVE push_pairs(_, _, _, _, _, _)
push_pairs(bytes, fb, i, delim, conf, res0) ==
    IF i > Len(fb) THEN res0
    ELSE IF i = Len(fb)
    THEN push_msg_leveled(res0, "number of words is not even", conf.enforce_even)
    ELSE LET k == SubSeq(bytes, fb[i][1] + 1, fb[i][2])
             v == SubSeq(bytes, fb[i + 1][1] + 1, fb[i + 1][2])
             kupper == to_uppercase(k)
         IN  push_pairs(bytes, fb, i + 2, delim, conf,
                IF conf.no_delim_escape
                THEN IF v = <<>>
                     THEN push_msg_leveled(res0, "key has a blank value",
                                           conf.enforce_nonempty)
                     ELSE [res0 EXCEPT !.data = Append(@, <<kupper, v>>)]
                ELSE [res0 EXCEPT !.data = Append(@, <<replace(kupper, delim),
                                                      replace(v, delim)>>)])

split_raw_text(bytes, delim, conf) ==
    LET res0 == PureSuccess_from(<<>>)
        textlen == Len(bytes)
        ps == delim_positions(bytes, delim)
        raw == raw_boundaries(ps)
        filtered == filtered_boundaries(raw, 1, [kept |-> <<>>, out |-> res0])
        fs == filtered.kept
        x0 == fs[1][1]
        xf == fs[Len(fs)][1]
        len == fs[Len(fs)][2]
        res1 == IF x0 > 0
                THEN push_error(filtered.out, "first key starts with a delim")
                ELSE filtered.out
        res2 == IF xf + len < textlen - 1
                THEN push_error(res1, "final value ends with a delim")
                ELSE res1
        boundaries == IF conf.no_delim_escape THEN raw ELSE fs
        res3 == IF conf.no_delim_escape THEN res0 ELSE res2
        res4 == IF not_usize(ps[Len(ps)]) = Len(bytes) - 1
                THEN push_msg_leveled(res3, "Last char is not a delimiter",
                                      conf.enforce_final_delim)
                ELSE res3
        final_boundaries == [i \in 1..Len(boundaries) |->
                                <<boundaries[i][1] + 1,
                                  boundaries[i][1] + boundaries[i][2]>>]
    IN  IF Len(ps) <= 2 THEN res0
        ELSE IF ~conf.no_delim_escape /\ fs = <<>> THEN filtered.out
        ELSE push_pairs(bytes, final_boundaries, 1, delim, conf, res4)

\* HashMap::insert: the value of an existing key is replaced
insert(hashmap, key, value) ==
    [k \in DOMAIN hashmap \cup {key} |-> IF k = key THEN value ELSE hashmap[k]]

is_standard_key(key) == key # <<>> /\ key[1] = "$"

\* the loop of split_raw_pairs from pair i on
RECURSIVE split_raw_pairs_from(_, _, _, _)
split_raw_pairs_from(pairs, i, conf, res0) ==
    IF i > Len(pairs) THEN res0
    ELSE LET key == pairs[i][1]
             std == is_standard_key(key)
             ires == key \in DOMAIN (IF std THEN res0.data.standard
                                     ELSE res0.data.nonstandard)
             res1 == IF std
                     THEN [res0 EXCEPT !.data.standard = insert(@, key, pairs[i][2])]
                     ELSE [res0 EXCEPT !.data.nonstandard = insert(@, key, pairs[i][2])]
         IN  split_raw_pairs_from(pairs, i + 1, conf,
                IF ires
                THEN push_msg_leveled(res1, "Skipping already-inserted key",
                                      conf.enforce_unique)
                ELSE res1)

split_raw_pairs(pairs, conf) ==
    split_raw_pairs_from(pairs, 1, conf,
        PureSuccess_from([standard |-> [k \in {} |-> <<>>],
                          nonstandard |-> [k \in {} |-> <<>>]]))

\* the TEXT of the standard's example, `Acme,, Inc` as the value of $CYT
AcmeText ==
    <<",", "$", "C", "Y", "T", ",", "A", "c", "m", "e", ",", ",", " ", "I", "n", "c", ",">>

\* TEXTs whose first byte is 0, 127 or 128
OddDelimTexts == {<<d, "k", d, "k", d>> : d \in {"NUL", "DEL", "0x80"}}

\* TEXTs in which a key occurs twice, with two values
DupTexts == {<<",", "$", "C", ",", "A", ",", "$", "C", ",", "I", ",">>,
             <<",", "k", ",", "A", ",", "k", ",", "I", ",">>,
             <<",", "$", "C", ",", "A", ",", "k", ",", "I", ",">>}

\* the pairs of a supplemental TEXT: none, or a third value of $C
StextPairs == {<<>>, << <<<<"$", "C">>, <<"e">>>> >>}

SplitInit ==
    /\ xs \in {AcmeText} \cup OddDelimTexts \cup DupTexts
                \cup UNION {[1..n -> {",", "k"}] : n \in 1..MaxText}
    /\ conf_raw \in RawConfs
    /\ split = [stage |-> "read", delim |-> NoVal, res |-> NoVal,
                pairs |-> NoVal, raw |-> NoVal]
    /\ res = Idle /\ emitted = <<>> /\ lastOp = Idle
    /\ raw_standard_keywords = Idle
    /\ missing_keywords = <<>>
    /\ deprecated_keys = <<>>
    /\ deprecated_features = <<>>
    /\ raw_nonstandard_keywords = {}
    /\ meta_errors = <<>>
    /\ meta_warnings = <<>>
    /\ call = Idle
    /\ text = Idle /\ interp = Idle
    /\ pc = Idle /\ file = Idle /\ readLog = <<>> /\ segs = Idle /\ ints = Idle /\ tv = Idle /\ dat = Idle

SplitFrame == UNCHANGED <<accVars, kwVars, textVars, fileVars, xs, conf_raw>>

\* read_raw_text: the delimiter is the first byte of the segment
VerifyDelim ==
    /\ split.stage = "read"
    /\ split' = [split EXCEPT !.stage = "delim", !.delim = verify_delim(xs, conf_raw)]
    /\ SplitFrame

\* the closure handed to try_map: split_raw_text on the same bytes
SplitRawText ==
    /\ split.stage = "delim"
    /\ split' = [split EXCEPT !.stage = "split",
                    !.res = split_raw_text(xs, split.delim.data[1], conf_raw)]
    /\ SplitFrame

\* new_pairs.extend(stext_pairs), and then split_raw_pairs on all of them
SplitRawPairs ==
    /\ split.stage = "split"
    /\ \E stext_pairs \in StextPairs :
        split' = [split EXCEPT !.stage = "pairs",
                    !.pairs = split.res.data \o stext_pairs,
                    !.raw = split_raw_pairs(split.res.data \o stext_pairs, conf_raw)]
    /\ SplitFrame

SplitNext ==
    \/ VerifyDelim
    \/ SplitRawText
    \/ SplitRawPairs

SpecSplit == SplitInit /\ [][SplitNext]_vars

\* what the escape rule makes of the bytes from i on, w being the word so
\* far and run the delimiters seen since its last byte: a run of k adds
\* k \div 2 delimiters to the word and ends it when k is odd
RECURSIVE escaped_words(_, _, _, _, _)
escaped_words(bytes, delim, i, w, run) ==
    IF i > Len(bytes) THEN <<w>>
    ELSE IF bytes[i] = delim THEN escaped_words(bytes, delim, i + 1, w, run + 1)
    ELSE LET lit == [j \in 1..(run \div 2) |-> delim]
         IN  IF run % 2 = 1
             THEN <<w \o lit>> \o escaped_words(bytes, delim, i + 1, <<bytes[i]>>, 0)
             ELSE escaped_words(bytes, delim, i + 1, w \o lit \o <<bytes[i]>>, 0)

\* a TEXT the rule applies to without doubt: it begins and ends with one
\* delimiter and no run inside it is longer than two
EscapedText(bytes, delim) ==
    /\ Len(bytes) >= 3
    /\ bytes[Len(bytes)] = delim /\ bytes[2] # delim /\ bytes[Len(bytes) - 1] # delim
    /\ \A i \in 1..(Len(bytes) - 2) :
            ~(bytes[i] = delim /\ bytes[i + 1] = delim /\ bytes[i + 2] = delim)

\* C10: in escape mode a run of k delimiters inside TEXT adds k \div 2
\* delimiters to the surrounding word and ends the word only when k is odd,
\* so that an even number of such words comes out as their pairs, with no
\* diagnostic; `Acme,, Inc` is the value `Acme, Inc`.
C10_EscapedRuns ==
    (/\ split.stage = "split"
     /\ ~conf_raw.no_delim_escape
     /\ EscapedText(xs, xs[1])) =>
        LET ws == escaped_words(SubSeq(xs, 1, Len(xs) - 1), xs[1], 2, <<>>, 0)
        IN  Len(ws) % 2 = 0 =>
                /\ split.res.data = [i \in 1..(Len(ws) \div 2) |->
                                        <<to_uppercase(ws[2 * i - 1]), ws[2 * i]>>]
                /\ split.res.deferred = <<>>

(***************************************************************************)
(* read_fcs_file: the order in which the segments of a file are read.      *)
(* file says what the reader will meet in the file; readLog is what it has *)
(* done so far, oldest first.                                              *)
\* C11: a delimiter byte outside 1..=126 or not valid UTF-8 leaves
\* diagnostics, every one of them an error when force_ascii_delim is set and
\* a warning when it is not; a delimiter inside 1..=126 leaves none; in both
\* cases verify_delim returns the delimiter and the parse goes on.
C11_DelimDiagnostic ==
    split.stage \in {"delim", "split", "pairs"} =>
        /\ split.delim.ok /\ split.delim.data = <<xs[1]>>
        /\ IF Code(xs[1]) \in 1..126
           THEN split.delim.deferred = <<>>
           ELSE /\ split.delim.deferred # <<>>
                /\ \A i \in DOMAIN split.delim.deferred :
                        split.delim.deferred[i].level =
                            IF conf_raw.force_ascii_delim THEN "Error" ELSE "Warning"

\* C12: when the last byte of TEXT is not the delimiter the result of
\* split_raw_text carries the diagnostic "Last char is not a delimiter", an
\* error when enforce_final_delim is set and a warning otherwise; when the
\* last byte is the delimiter it carries no such diagnostic.
C12_FinalDelim ==
    split.stage \in {"split", "pairs"} =>
        LET finals == {i \in DOMAIN split.res.deferred :
                        split.res.deferred[i].msg = "Last char is not a delimiter"}
        IN  IF xs[Len(xs)] = xs[1]
            THEN finals = {}
            ELSE /\ finals # {}
                 /\ \A i \in finals :
                        split.res.deferred[i].level =
                            IF conf_raw.enforce_final_delim THEN "Error" ELSE "Warning"

\* the positions in the pairs at which key occurs
Occurrences(pairs, key) == {i \in DOMAIN pairs : pairs[i][1] = key}

Min(S) == CHOOSE x \in S : \A y \in S : x <= y

\* C13: of the occurrences of a key in TEXT (primary and supplemental) the
\* value kept is that of the first one, and for each later occurrence there
\* is one diagnostic, an error when enforce_unique is set and a warning
\* otherwise.
C13_FirstOccurrenceKept ==
    split.stage = "pairs" =>
        LET pairs == split.pairs
            keys == {pairs[i][1] : i \in DOMAIN pairs}
            kept == [k \in keys |->
                        IF is_standard_key(k) THEN split.raw.data.standard[k]
                        ELSE split.raw.data.nonstandard[k]]
        IN  /\ \A k \in keys : kept[k] = pairs[Min(Occurrences(pairs, k))][2]
            /\ Len(split.raw.deferred) = Len(pairs) - Cardinality(keys)
            /\ \A i \in DOMAIN split.raw.deferred :
                    split.raw.deferred[i].level =
                        IF conf_raw.enforce_unique THEN "Error" ELSE "Warning"

(***************************************************************************)
Files ==
    [version : Versions,
     header : {"ok", "short", "malformed"},
     text : {"ok", "bad offsets"},
     stext : {"absent", "invalid", "present"},
     data : {"ok", "missing"},
     std : {"Ok", "Err"},
     bytes : {"ok", "io error", "short", "unparsable"}]

Step(ok, log) == [ok |-> ok, log |-> log]

\* read_exact of 58 bytes, then parse_header
read_header(f) ==
    IF f.header = "short" THEN Step(FALSE, <<>>)
    ELSE IF f.header = "malformed" THEN Step(FALSE, <<"read HEADER">>)
    ELSE Step(TRUE, <<"read HEADER", "parsed HEADER">>)

\* read_raw_text with supplemental TEXT never read
read_raw_text_without_stext(f) ==
    IF f.text = "bad offsets" THEN Step(FALSE, <<>>)
    ELSE Step(f.version = "FCS2.0" \/ f.data = "ok", <<"read TEXT", "split TEXT">>)

\* the primary TEXT is read and split; from 3.0 on the supplemental TEXT is
\* read and split when TEXT gives its offsets
read_raw_text(f) ==
    IF f.text = "bad offsets" THEN Step(FALSE, <<>>)
    ELSE IF f.version = "FCS2.0" THEN Step(TRUE, <<"read TEXT", "split TEXT">>)
    ELSE Step(f.data = "ok",
              <<"read TEXT", "split TEXT">>
              \o (IF f.stext = "present" THEN <<"read STEXT", "split STEXT">> ELSE <<>>))

\* parse_raw_text reads nothing from the file
parse_raw_text(f) == Step(f.std = "Ok", <<"interpreted TEXT">>)

\* read_data seeks to the plan's begin and runs the plan's reader, whose
\* reads and parses are all followed by `?`: an I/O error, an end of file
\* inside a value and an ASCII value that is no number each come back as Err
read_data(f) == Step(f.bytes = "ok", <<"read DATA">>)

FileInit ==
    /\ file \in Files
    /\ pc = "open"
    /\ readLog = <<>>
    /\ segs = Idle /\ ints = Idle /\ tv = Idle /\ dat = Idle
    /\ res = Idle /\ emitted = <<>> /\ lastOp = Idle
    /\ raw_standard_keywords = Idle
    /\ missing_keywords = <<>>
    /\ deprecated_keys = <<>>
    /\ deprecated_features = <<>>
    /\ raw_nonstandard_keywords = {}
    /\ meta_errors = <<>>
    /\ meta_warnings = <<>>
    /\ call = Idle
    /\ text = Idle /\ interp = Idle
    /\ xs = <<>> /\ conf_raw = Idle /\ split = Idle

FileFrame == UNCHANGED <<accVars, kwVars, textVars, splitVars, file, segs, ints, tv, dat>>

\* read_data(&mut reader, std.data_parser).unwrap(): the data are returned
\* to the caller, or the process panics
unwrap(r) == IF r.ok THEN "returned" ELSE "aborted"

\* the steps of read_fcs_file's body, in its order; a failed step returns
\* from read_fcs_file
ReadHeader ==
    /\ pc = "open"
    /\ readLog' = readLog \o read_header(file).log
    /\ pc' = IF read_header(file).ok THEN "header" ELSE "returned"
    /\ FileFrame

ReadRawText ==
    /\ pc = "header"
    /\ readLog' = readLog \o read_raw_text(file).log
    /\ pc' = IF read_raw_text(file).ok THEN "raw" ELSE "returned"
    /\ FileFrame

ParseRawText ==
    /\ pc = "raw"
    /\ readLog' = readLog \o parse_raw_text(file).log
    /\ pc' = IF parse_raw_text(file).ok THEN "std" ELSE "returned"
    /\ FileFrame

ReadData ==
    /\ pc = "std"
    /\ readLog' = readLog \o read_data(file).log
    /\ pc' = unwrap(read_data(file))
    /\ FileFrame

FileNext ==
    \/ ReadHeader
    \/ ReadRawText
    \/ ParseRawText
    \/ ReadData

SpecFile == FileInit /\ [][FileNext]_vars

Before(a, i) == \E j \in 1..(i - 1) : readLog[j] = a

\* C1: TEXT, primary or supplemental, is read only after HEADER was read and
\* parsed; DATA is read only after all TEXT was read and interpreted, the
\* supplemental TEXT included when the file has one.
C1_SegmentOrder ==
    \A i \in DOMAIN readLog :
        /\ readLog[i] \in {"read TEXT", "read STEXT"} =>
                Before("read HEADER", i) /\ Before("parsed HEADER", i)
        /\ readLog[i] = "read DATA" =>
                /\ Before("read TEXT", i) /\ Before("interpreted TEXT", i)
                /\ \A j \in DOMAIN readLog :
                        readLog[j] \in {"read TEXT", "read STEXT", "interpreted TEXT"}
                            => j < i
                /\ (file.version # "FCS2.0" /\ file.stext = "present") =>
                        \E j \in 1..(i - 1) :
                            readLog[j] = "read STEXT" /\ Before("read TEXT", j)
                                /\ \E k \in (j + 1)..(i - 1) :
                                        readLog[k] = "interpreted TEXT"

\* DATA was read from a file that has supplemental TEXT
C1_Witness ==
    /\ pc = "returned"
    /\ readLog # <<>>
    /\ readLog[Len(readLog)] = "read DATA"
    /\ \E j \in DOMAIN readLog : readLog[j] = "read STEXT"

\* TEXT was interpreted successfully and reading DATA failed
DataReadFailed ==
    /\ readLog # <<>>
    /\ readLog[Len(readLog)] = "read DATA"
    /\ parse_raw_text(file).ok
    /\ file.bytes # "ok"

\* C30: if reading DATA fails after TEXT was interpreted successfully (I/O
\* error, DATA shorter than the plan requires, unparsable ASCII value),
\* read_fcs_file returns to its caller, with a failure, and does not abort.
C30_DataFailureReturned ==
    DataReadFailed => pc = "returned"

(***************************************************************************)
(* The segments of a file: Segment (src/api.rs), parse_header and          *)
(* parse_bounds (header.rs), find_raw_segments and the offsets used to     *)
(* plan and read DATA (src/api.rs).                                        *)
(*                                                                         *)
(* An offset is a u32 and a corrected offset an i64.  Either is held as    *)
(* hi * 2^16 + lo with 0 <= lo < 2^16, so that the largest u32 and the     *)
(* sums around it are values of the model.                                 *)
(***************************************************************************)
Limb == 256 * 256

Wide(hi, lo) == [hi |-> hi, lo |-> lo]

\* i64::from of a number the model's integers hold
wide(n) == Wide(n \div Limb, n % Limb)

wide_add(a, b) == Wide(a.hi + b.hi + (a.lo + b.lo) \div Limb, (a.lo + b.lo) % Limb)
wide_sub(a, b) == Wide(a.hi - b.hi + (a.lo - b.lo) \div Limb, (a.lo - b.lo) % Limb)
wide_gt(a, b) == a.hi > b.hi \/ (a.hi = b.hi /\ a.lo > b.lo)

u32_MAX == Wide(Limb - 1, Limb - 1)

\* u32::try_from(x).is_ok()
u32_try_from_is_ok(x) == x.hi \in 0..(Limb - 1)

\* the low 32 bits
wrapping_u32(x) == Wide(x.hi % Limb, x.lo)

\* Segment::try_new_adjusted
try_new_adjusted(begin, end, begin_delta, end_delta) ==
    IF /\ u32_try_from_is_ok(wide_add(begin, begin_delta))
       /\ u32_try_from_is_ok(wide_add(end, end_delta))
    THEN IF wide_gt(wide_add(begin, begin_delta), wide_add(end, end_delta))
         THEN Err("Begin after end")
         ELSE Ok(Segment(wide_add(begin, begin_delta), wide_add(end, end_delta)))
    ELSE Err("Offset out of range")

try_new(begin, end) == try_new_adjusted(begin, end, wide(0), wide(0))

try_adjust(self, begin_delta, end_delta) ==
    try_new_adjusted(self.begin, self.end, begin_delta, end_delta)

Segment_is_unset(self) == self.begin = wide(0) /\ self.end = wide(0)

\* Segment::len and Segment::num_bytes: u32 arithmetic.  self.len() + 1
\* overflows when len is u32::MAX: the build with overflow checks aborts,
\* the build without wraps to 0.
Segment_len(self) == wrapping_u32(wide_sub(self.end, self.begin))

Segment_num_bytes(self, overflow_checks) ==
    IF Segment_len(self) = u32_MAX
    THEN IF overflow_checks THEN Err(PANIC) ELSE Ok(wide(0))
    ELSE Ok(wide_add(Segment_len(self), wide(1)))

\* parse_bounds (header.rs): the two fields are digits; the segment is
\* validated as it stands, with corrections of 0
parse_bounds(s0, s1) == try_new(s0, s1)

Header(version, text_seg, data_seg, analysis_seg) ==
    [version |-> version, text |-> text_seg, data |-> data_seg,
     analysis |-> analysis_seg]

parse_header(h) ==
    IF /\ parse_bounds(h.text[1], h.text[2]).ok
       /\ parse_bounds(h.data[1], h.data[2]).ok
       /\ parse_bounds(h.analysis[1], h.analysis[2]).ok
    THEN Ok(Header(h.version,
                   parse_bounds(h.text[1], h.text[2]).val,
                   parse_bounds(h.data[1], h.data[2]).val,
                   parse_bounds(h.analysis[1], h.analysis[2]).val))
    ELSE Err("could not parse HEADER fields")

\* parse_segment: begin and end are Option<u32>, the offsets of TEXT parsed
parse_segment(begin, end, begin_delta, end_delta, level) ==
    IF begin.some /\ end.some
    THEN IF try_new_adjusted(begin.val, end.val, begin_delta, end_delta).ok
         THEN PureSuccess_from(
                try_new_adjusted(begin.val, end.val, begin_delta, end_delta).val)
         ELSE Failure(<<[msg |-> try_new_adjusted(begin.val, end.val, begin_delta,
                                                  end_delta).msg,
                         level |-> level]>>)
    ELSE Failure((IF begin.some THEN <<>>
                  ELSE <<[msg |-> "begin not present", level |-> level]>>)
                 \o (IF end.some THEN <<>>
                     ELSE <<[msg |-> "end not present", level |-> level]>>))

\* the segment of TEXT kept whatever HEADER says
prefer_text(data_seg, header_data_seg) ==
    IF ~Segment_is_unset(header_data_seg) /\ data_seg # header_data_seg
    THEN push_msg_leveled(PureSuccess_from(data_seg),
            "DATA offsets differ in HEADER and TEXT, using HEADER", FALSE)
    ELSE PureSuccess_from(data_seg)

\* what the map of find_raw_segments makes of the DATA segment of TEXT
prefer_header(data_seg, header_data_seg) ==
    IF ~Segment_is_unset(header_data_seg) /\ data_seg # header_data_seg
    THEN push_msg_leveled(PureSuccess_from(header_data_seg),
            "DATA offsets differ in HEADER and TEXT, using HEADER", FALSE)
    ELSE PureSuccess_from(data_seg)

\* find_raw_segments: the DATA segment of its result
find_raw_segments(data0, data1, conf, header_data_seg) ==
    IF parse_segment(data0, data1, conf.startdata_delta, conf.enddata_delta, "Error").ok
    THEN prefer_header(
            parse_segment(data0, data1, conf.startdata_delta, conf.enddata_delta,
                          "Error").data,
            header_data_seg)
    ELSE parse_segment(data0, data1, conf.startdata_delta, conf.enddata_delta, "Error")

\* InnerReadDataX::data_offsets on these offsets: self.data is the segment
\* that lookup_data_offsets built from TEXT
InnerReadData_data_offsets(self_data, version, o) ==
    IF version = "FCS2.0" THEN o
    ELSE IF Segment_is_unset(o) THEN self_data ELSE o

\* the HEADER fields, the offsets in TEXT and the corrections configured
HeaderTexts == {<<wide(100), wide(200)>>, <<wide(300), wide(200)>>}
HeaderDatas == {<<wide(0), wide(0)>>, <<wide(256), wide(511)>>}
TextDatas ==
    << <<None, None>>, <<Some(wide(256)), None>>,
       <<Some(wide(256)), Some(wide(511))>>, <<Some(wide(256)), Some(wide(600))>>,
       <<Some(wide(255)), Some(wide(511))>>, <<Some(wide(600)), Some(wide(256))>>,
       <<Some(wide(0)), Some(u32_MAX)>>, <<Some(wide(1)), Some(u32_MAX)>> >>
SegConfs ==
    [starttext_delta : {wide(0)}, endtext_delta : {wide(0), wide(200), wide(-150)},
     startdata_delta : {wide(0), wide(1)}, enddata_delta : {wide(0)}]

SegInit ==
    /\ \E version \in {"FCS2.0", "FCS3.1"}, t \in HeaderTexts, d \in HeaderDatas,
          i \in DOMAIN TextDatas, conf \in SegConfs :
        segs = [stage |-> "open",
                hdr |-> [version |-> version, text |-> t, data |-> d,
                         analysis |-> <<wide(0), wide(0)>>],
                begindata |-> TextDatas[i][1], enddata |-> TextDatas[i][2],
                conf |-> conf,
                header |-> NoVal, text_seg |-> NoVal, data |-> NoVal,
                plan |-> NoVal, nbytes |-> NoVal]
    /\ pc = Idle /\ file = Idle /\ readLog = <<>> /\ ints = Idle /\ tv = Idle /\ dat = Idle
    /\ res = Idle /\ emitted = <<>> /\ lastOp = Idle
    /\ raw_standard_keywords = Idle
    /\ missing_keywords = <<>>
    /\ deprecated_keys = <<>>
    /\ deprecated_features = <<>>
    /\ raw_nonstandard_keywords = {}
    /\ meta_errors = <<>>
    /\ meta_warnings = <<>>
    /\ call = Idle
    /\ text = Idle /\ interp = Idle
    /\ xs = <<>> /\ conf_raw = Idle /\ split = Idle

SegFrame == UNCHANGED <<accVars, kwVars, textVars, splitVars, pc, file, readLog, ints, tv, dat>>

\* read_header: parse_header on the 58 bytes
SegReadHeader ==
    /\ segs.stage = "open"
    /\ segs' = [segs EXCEPT !.stage = IF parse_header(segs.hdr).ok THEN "header"
                                     ELSE "failed",
                           !.header = parse_header(segs.hdr)]
    /\ SegFrame

\* read_raw_text: the TEXT segment is corrected, and for 3.0 and later
\* find_raw_segments yields the DATA segment; for 2.0 it is the HEADER's
SegReadRawText ==
    /\ segs.stage = "header"
    /\ segs' =
        IF ~try_adjust(segs.header.val.text, segs.conf.starttext_delta,
                       segs.conf.endtext_delta).ok
        THEN [segs EXCEPT !.stage = "failed",
                          !.text_seg = try_adjust(segs.header.val.text,
                                                  segs.conf.starttext_delta,
                                                  segs.conf.endtext_delta)]
        ELSE [segs EXCEPT
                !.stage = "text",
                !.text_seg = try_adjust(segs.header.val.text,
                                        segs.conf.starttext_delta,
                                        segs.conf.endtext_delta),
                !.data = IF segs.hdr.version = "FCS2.0"
                         THEN PureSuccess_from(segs.header.val.data)
                         ELSE find_raw_segments(segs.begindata, segs.enddata,
                                                segs.conf, segs.header.val.data)]
    /\ SegFrame

\* lookup_data_offsets of TEXT interpretation: Segment::try_new on the
\* offsets of TEXT, uncorrected
lookup_data_offsets(begin, end) ==
    IF begin.some /\ end.some /\ try_new(begin.val, end.val).ok
    THEN Some(try_new(begin.val, end.val).val)
    ELSE None

\* the segment whose bytes are planned and read, and its num_bytes, in a
\* build with or without overflow checks
Planned(seg, nbytes) ==
    [segs EXCEPT !.stage = IF nbytes.ok THEN "planned" ELSE "aborted",
                 !.plan = seg, !.nbytes = nbytes]

\* total_events and read_segment: data_offsets and num_bytes
SegPlanData ==
    /\ segs.stage = "text"
    /\ segs.data.ok
    /\ segs.hdr.version = "FCS2.0"
            \/ lookup_data_offsets(segs.begindata, segs.enddata).some
    /\ \E overflow_checks \in BOOLEAN :
        segs' = Planned(
            InnerReadData_data_offsets(
                lookup_data_offsets(segs.begindata, segs.enddata).val,
                segs.hdr.version, segs.header.val.data),
            Segment_num_bytes(
                InnerReadData_data_offsets(
                    lookup_data_offsets(segs.begindata, segs.enddata).val,
                    segs.hdr.version, segs.header.val.data),
                overflow_checks))
    /\ SegFrame

SegNext ==
    \/ SegReadHeader
    \/ SegReadRawText
    \/ SegPlanData

SpecSeg == SegInit /\ [][SegNext]_vars

\* the DATA segment of TEXT as find_raw_segments compares it: corrected
TextDataSeg ==
    try_new_adjusted(segs.begindata.val, segs.enddata.val,
                     segs.conf.startdata_delta, segs.conf.enddata_delta).val

DataDiffer ==
    /\ segs.stage \in {"text", "planned", "aborted"}
    /\ segs.hdr.version # "FCS2.0"
    /\ segs.data.ok
    /\ ~Segment_is_unset(segs.header.val.data)
    /\ TextDataSeg # segs.header.val.data

DataAgree ==
    /\ segs.stage \in {"text", "planned", "aborted"}
    /\ segs.hdr.version # "FCS2.0"
    /\ segs.data.ok
    /\ TextDataSeg = segs.header.val.data

HeaderPreferredWarnings ==
    {i \in DOMAIN segs.data.deferred :
        segs.data.deferred[i].msg = "DATA offsets differ in HEADER and TEXT, using HEADER"}

\* C14: for versions >= 3.0, when the DATA segment of HEADER is not unset and
\* the offsets of TEXT describe a different segment, the segment found, and
\* the one planned and read, is HEADER's, and a warning is recorded; when
\* the two agree there is no such warning.
C14_HeaderPreferred ==
    /\ DataDiffer =>
        /\ segs.data.data = segs.header.val.data
        /\ HeaderPreferredWarnings # {}
        /\ \A i \in HeaderPreferredWarnings : segs.data.deferred[i].level = "Warning"
        /\ segs.stage \in {"planned", "aborted"} => segs.plan = segs.header.val.data
    /\ DataAgree => HeaderPreferredWarnings = {}

C14_Witness ==
    /\ DataDiffer
    /\ segs.stage = "planned"
    /\ segs.plan = segs.header.val.data
    /\ segs.plan # TextDataSeg
    /\ HeaderPreferredWarnings # {}

\* a pair of raw offsets with its corrections added, in wide arithmetic,
\* fits in u32 and has begin <= end
CorrectedValid(pair, begin_delta, end_delta) ==
    /\ wide_add(pair[1], begin_delta).hi \in 0..(Limb - 1)
    /\ wide_add(pair[2], end_delta).hi \in 0..(Limb - 1)
    /\ ~wide_gt(wide_add(pair[1], begin_delta), wide_add(pair[2], end_delta))

AllCorrectedValid ==
    /\ CorrectedValid(segs.hdr.text, segs.conf.starttext_delta, segs.conf.endtext_delta)
    /\ CorrectedValid(segs.hdr.data, segs.conf.startdata_delta, segs.conf.enddata_delta)
    /\ CorrectedValid(segs.hdr.analysis, wide(0), wide(0))

\* C15: the corrections are added to the raw offsets of HEADER before the
\* segment is validated: a HEADER is accepted exactly when every corrected
\* pair fits in u32 and has begin <= end, even when the uncorrected pair
\* does not.
C15_CorrectedBeforeValidated ==
    segs.stage \in {"failed", "text", "planned", "aborted"} =>
        (segs.stage # "failed" <=> AllCorrectedValid)

\* C16: every segment of a parse has begin <= end, and its num_bytes is
\* end - begin + 1, also when its end is the largest u32.
C16_SegmentNumBytes ==
    segs.stage \in {"planned", "aborted"} =>
        /\ ~wide_gt(segs.plan.begin, segs.plan.end)
        /\ segs.nbytes.ok
        /\ segs.nbytes.val = wide_add(wide_sub(segs.plan.end, segs.plan.begin), wide(1))

(***************************************************************************)
(* Properties of the read plan.                                            *)
(***************************************************************************)
\* parse_raw_text has built, or failed to build, a plan for a TEXT whose
\* $PnB are all fixed, with no $PnDATATYPE, whose events were counted
FixedWidthPlanned(datatype) ==
    /\ interp.pc = "done"
    /\ interp.ms.some /\ interp.rd.some /\ interp.md.some
    /\ interp.md.val.datatype = datatype
    /\ \A i \in 1..Len(interp.ms.val) : interp.ms.val[i].bytes.fixed
    /\ \A n \in 1..MaxPar : Key("$PnDATATYPE", n) \notin DOMAIN text.standard_keywords
    /\ \A i \in DOMAIN interp.std_errors.meta_errors :
            interp.std_errors.meta_errors[i] # "Events do not evenly divide DATA"

WidthErrors ==
    {i \in DOMAIN interp.std_errors.meta_errors :
        interp.std_errors.meta_errors[i] = "Measurement width differs from DATATYPE"}

NotOfWidth(b) == {i \in 1..Len(interp.ms.val) : interp.ms.val[i].bytes.b # b}

\* C17: with all $PnB fixed, no column datatype and $DATATYPE = F, a Float32
\* matrix plan is produced if and only if every measurement is 4 bytes
\* wide; otherwise there is no plan and an error for each measurement whose
\* width differs.
C17_FloatPlan ==
    FixedWidthPlanned("Single") =>
        IF NotOfWidth(4) = {}
        THEN /\ WidthErrors = {}
             /\ interp.outcome = "Ok" => interp.result.data_parser.val.kind = "Single"
        ELSE /\ interp.outcome = "Err"
             /\ Cardinality(WidthErrors) = Cardinality(NotOfWidth(4))

IntWidthErrors ==
    {i \in DOMAIN interp.std_errors.meta_errors :
        interp.std_errors.meta_errors[i]
            = "Measurement width differs from the bytes BYTEORD implies"}

\* C18: with $DATATYPE = I and an endian $BYTEORD an Integer plan is
\* produced for any column widths of 1 to 8 bytes, which need not be 4:
\* two columns of $PnB = 16 are planned as two columns of 16-bit values.
C18_IntPlanAnyWidth ==
    (/\ FixedWidthPlanned("Integer")
     /\ interp.md.val.byteord.endian
     /\ \A i \in 1..Len(interp.ms.val) :
            interp.ms.val[i].bytes.b \in 1..8 /\ interp.ms.val[i].range.int) =>
        /\ IntWidthErrors = {}
        /\ interp.outcome = "Ok" =>
            /\ interp.result.data_parser.val.kind = "Int"
            /\ interp.result.data_parser.val.ncols = Len(interp.ms.val)

\* the keyword $DFCmTOn of a TEXT
DFCmTOn(m, n) == Key("$DFC" \o Digits[m + 1] \o "TO" \o Digits[n + 1], 0)

\* every $DFCmTOn with m, n in 1..=p is in TEXT and is a number
AllDFCNumeric(p) ==
    \A m \in 1..p, n \in 1..p :
        /\ DFCmTOn(m, n) \in DOMAIN text.standard_keywords
        /\ parse_float(text.standard_keywords[DFCmTOn(m, n)]).ok

\* the metadata of a 2.0 TEXT was looked up, compensation included
CompensationLooked ==
    /\ interp.pc \in {"md", "done", "aborted"}
    /\ text.version = "FCS2.0"
    /\ interp.ms.some /\ interp.md.some

\* C22: for version 2.0 with $PAR = p, compensation is Present exactly when
\* every $DFCmTOn with m, n in 1..=p is in TEXT and parses as a number, each
\* cell then holding the value of its keyword; it is Absent if one is missing.
C22_Compensation2_0 ==
    CompensationLooked =>
        /\ interp.comp.some <=> AllDFCNumeric(Len(interp.ms.val))
        /\ interp.comp.some =>
            /\ Len(interp.comp.val) = Len(interp.ms.val) * Len(interp.ms.val)
            /\ \A m \in 1..Len(interp.ms.val), n \in 1..Len(interp.ms.val) :
                    interp.comp.val[(n - 1) * Len(interp.ms.val) + m]
                        = parse_float(text.standard_keywords[DFCmTOn(m, n)]).val

\* a 3.2 TEXT with neither $BEGINSTEXT nor $ENDSTEXT has been interpreted
STEXTKeys == {Key("$BEGINSTEXT", 0), Key("$ENDSTEXT", 0)}
WithoutSTEXT ==
    /\ interp.pc = "done"
    /\ text.version = "FCS3.2"
    /\ DOMAIN text.standard_keywords \cap STEXTKeys = {}

\* the well-formed 3.2 TEXT but for these two keywords
OnlySTEXTDropped ==
    text.standard_keywords
        = [k \in BaselineKeys("FCS3.2") \ STEXTKeys |-> BaselineValue(k)]

\* C23: in version 3.2 a TEXT without $BEGINSTEXT/$ENDSTEXT is not rejected
\* for that reason: neither key is recorded as a missing required keyword,
\* a TEXT with nothing else wrong is accepted, and no supplemental TEXT
\* segment comes out of the lookup.
C23_OptionalSTEXT ==
    WithoutSTEXT =>
        /\ \A i \in DOMAIN interp.std_errors.missing_keywords :
                interp.std_errors.missing_keywords[i] \notin STEXTKeys
        /\ OnlySTEXTDropped => interp.outcome = "Ok"
        /\ ~lookup_supplemental3_2(to_state(text)).ret.val.stext.some

\* the TEXT reached build_data_parser, which returned or aborted
ReachedPlanner ==
    /\ interp.pc \in {"done", "aborted"}
    /\ interp.ms.some /\ interp.rd.some /\ interp.md.some

\* C29: the row count is never computed by dividing by an event width of
\* zero: every TEXT that reaches the planner, $PAR = 0 and accepted $PnB of
\* width 0 included, gets a plan or an error, and the planner does not abort.
C29_NoZeroWidthDivision ==
    ReachedPlanner => interp.outcome \in {"Ok", "Err"}

(***************************************************************************)
(* Reading an integer column: make_int_parser, IntFromBytes and            *)
(* OrderedFromBytes (src/api.rs).  A byte is a number of 0..255; a value   *)
(* of the unsigned type of DTLEN bytes is its bytes, least significant     *)
(* first.                                                                  *)
(***************************************************************************)
\* make_int_parser: the bytes of the type that holds a column of b bytes
DTLEN(b) == IF b <= 2 THEN b ELSE IF b <= 4 THEN 4 ELSE 8

Zeros(n) == [i \in 1..n |-> 0]
Reverse(s) == [i \in 1..Len(s) |-> s[Len(s) + 1 - i]]

\* NumProps::from_little and from_big (crate::numeric)
from_little(buf) == buf
from_big(buf) == Reverse(buf)

\* IntMath::from_u64 (crate::numeric): x as Self, for x below 2^31
from_u64(x, dtlen) == IF dtlen <= 2 THEN x % (256 ^ dtlen) ELSE x

\* IntMath::next_power_2 (crate::numeric): the least power of two >= x
RECURSIVE next_power_2_from(_, _)
next_power_2_from(x, p) == IF p >= x THEN p ELSE next_power_2_from(x, 2 * p)

next_power_2(x) == next_power_2_from(x, 1)

\* IntFromBytes::range_to_bitmask
range_to_bitmask(range, dtlen) ==
    IF range.int THEN Some(next_power_2(from_u64(range.v.n, dtlen))) ELSE None

IntColumnParser(bitmask, size) == [bitmask |-> bitmask, size |-> size]

\* IntFromBytes::to_col_parser, as make_int_parser calls it for b bytes
to_col_parser(range, byteord, b) ==
    IF make_int_parser(b, range, byteord) = <<>>
    THEN Ok(IntColumnParser(range_to_bitmask(range, DTLEN(b)).val, byteord))
    ELSE Err(make_int_parser(b, range, byteord))

\* the bytes of a number below 2^31, least significant first
to_le_bytes(n, len) ==
    [i \in 1..len |-> IF i > 4 THEN 0 ELSE (n \div (256 ^ (i - 1))) % 256]

\* a > b, of two values of one type
le_gt(a, b) ==
    \E i \in 1..Len(a) : a[i] > b[i] /\ \A j \in (i + 1)..Len(a) : a[j] = b[j]

\* Ord::min
min(x, bitmask) == IF le_gt(x, bitmask) THEN bitmask ELSE x

\* what a read returns: the value or the abort, and the bytes left ahead
Read(ok, val, h) == [ok |-> ok, val |-> val, h |-> h]

\* buf[b..].copy_from_slice(&tmp[b..]): the two lengths must be the same
copy_from_slice(buf, b, tmp) ==
    IF Len(buf) - b = Len(tmp) - b
    THEN Ok(SubSeq(buf, 1, b) \o SubSeq(tmp, b + 1, Len(tmp)))
    ELSE Err(PANIC)

\* OrderedFromBytes::read_from_ordered: buf[order[i]] = tmp[i]
read_from_ordered(tmp, order, dtlen) ==
    from_little([j \in 1..dtlen |->
                    IF \E i \in 1..Len(order) : order[i] = j - 1
                    THEN tmp[CHOOSE i \in 1..Len(order) : order[i] = j - 1]
                    ELSE 0])

\* IntFromBytes::read_int on the bytes h ahead
read_int(h, byteord, dtlen, intlen) ==
    IF Len(h) < intlen THEN Read(FALSE, "UnexpectedEof", h)
    ELSE IF byteord.endian /\ byteord.e = "Big"
    THEN IF copy_from_slice(Zeros(dtlen), dtlen - intlen, SubSeq(h, 1, intlen)).ok
         THEN Read(TRUE,
                   from_big(copy_from_slice(Zeros(dtlen), dtlen - intlen,
                                            SubSeq(h, 1, intlen)).val),
                   SubSeq(h, intlen + 1, Len(h)))
         ELSE Read(FALSE, PANIC, SubSeq(h, intlen + 1, Len(h)))
    ELSE IF byteord.endian
    THEN Read(TRUE, from_little(SubSeq(h, 1, intlen) \o Zeros(dtlen - intlen)),
              SubSeq(h, intlen + 1, Len(h)))
    ELSE Read(TRUE, read_from_ordered(SubSeq(h, 1, intlen), byteord.order, dtlen),
              SubSeq(h, intlen + 1, Len(h)))

\* IntFromBytes::read_int_masked
read_int_masked(h, byteord, bitmask, dtlen, intlen) ==
    IF read_int(h, byteord, dtlen, intlen).ok
    THEN Read(TRUE, min(read_int(h, byteord, dtlen, intlen).val, bitmask),
              read_int(h, byteord, dtlen, intlen).h)
    ELSE read_int(h, byteord, dtlen, intlen)

\* the byte orders of a column of b bytes, and one of another length
ByteOrds(b) ==
    {ByteOrd_Endian("Little"), ByteOrd_Endian("Big"),
     ByteOrd_Mixed([i \in 1..b |-> i - 1]),
     ByteOrd_Mixed([i \in 1..b |-> b - i]),
     ByteOrd_Mixed([i \in 1..b |-> i % b]),
     ByteOrd_Mixed([i \in 1..(b + 1) |-> i - 1])}

\* the $PnR of a column of b bytes: the range and its next power of two fit
\* the type of the column
PnRs(b) ==
    {1, 4, 100} \cup (IF b >= 2 THEN {1000, 1024, 1025} ELSE {})
                \cup (IF b >= 3 THEN {16777216, 16777218, 1073741824} ELSE {})

Streams ==
    {<<1, 2, 3, 4, 5, 6, 7, 8, 9>>, <<3, 0, 0, 0, 0, 0, 0, 0, 0>>,
     <<0, 0, 0, 0, 0, 0, 0, 3, 255>>, <<255, 255, 255, 255, 255, 255, 255, 255, 255>>}

IntInit ==
    /\ \E b \in 1..8, h \in Streams :
        \E byteord \in ByteOrds(b), pnr \in PnRs(b), is_float \in BOOLEAN :
            ints = [stage |-> "column", b |-> b, pnr |-> pnr,
                    range |-> IF is_float THEN Range_Float(N(pnr))
                              ELSE Range_from_str(<<N(pnr)>>, TRUE).val,
                    byteord |-> byteord, bytes |-> h, h |-> h,
                    parser |-> NoVal, value |-> NoVal]
    /\ segs = Idle /\ tv = Idle /\ dat = Idle
    /\ pc = Idle /\ file = Idle /\ readLog = <<>>
    /\ res = Idle /\ emitted = <<>> /\ lastOp = Idle
    /\ raw_standard_keywords = Idle
    /\ missing_keywords = <<>>
    /\ deprecated_keys = <<>>
    /\ deprecated_features = <<>>
    /\ raw_nonstandard_keywords = {}
    /\ meta_errors = <<>>
    /\ meta_warnings = <<>>
    /\ call = Idle
    /\ text = Idle /\ interp = Idle
    /\ xs = <<>> /\ conf_raw = Idle /\ split = Idle

IntFrame ==
    UNCHANGED <<accVars, kwVars, textVars, splitVars, pc, file, readLog, segs, tv, dat>>

\* Measurement::make_int_parser: the column parser, or its errors
MakeIntParser ==
    /\ ints.stage = "column"
    /\ ints' = [ints EXCEPT
                  !.stage = IF to_col_parser(ints.range, ints.byteord, ints.b).ok
                            THEN "parser" ELSE "rejected",
                  !.parser = to_col_parser(ints.range, ints.byteord, ints.b)]
    /\ IntFrame

\* IntFromBytes::assign: one value of the column is read
ReadIntMasked ==
    /\ ints.stage = "parser"
    /\ ints' = [ints EXCEPT
                  !.stage = IF read_int(ints.h, ints.parser.val.size,
                                        DTLEN(ints.b), ints.b).ok
                            THEN "read" ELSE "aborted",
                  !.value = read_int_masked(ints.h, ints.parser.val.size,
                                to_le_bytes(ints.parser.val.bitmask, DTLEN(ints.b)),
                                DTLEN(ints.b), ints.b).val,
                  !.h = read_int_masked(ints.h, ints.parser.val.size,
                                to_le_bytes(ints.parser.val.bitmask, DTLEN(ints.b)),
                                DTLEN(ints.b), ints.b).h]
    /\ IntFrame

IntNext ==
    \/ MakeIntParser
    \/ ReadIntMasked

SpecInt == IntInit /\ [][IntNext]_vars

\* the place of byte i of a column in its value, under a sized byte order
PlaceOf(byteord, k, i) ==
    IF ~byteord.endian THEN byteord.order[i]
    ELSE IF byteord.e = "Big" THEN k - i ELSE i - 1

\* the unsigned value of the first k bytes under the byte order, extended
\* with zeros to the storage width
ValueUnder(bytes, byteord, k, width) ==
    [j \in 1..width |->
        IF j <= k THEN bytes[CHOOSE i \in 1..k : PlaceOf(byteord, k, i) = j - 1]
        ELSE 0]

\* C19: for every width k of 1 to 8 bytes and every sized byte order, a read
\* takes exactly k bytes and returns min(v, bitmask), v being the value of
\* those bytes under the byte order; no read aborts, whatever k is.
C19_ReadInt ==
    /\ ints.stage # "aborted"
    /\ ints.stage = "read" =>
        /\ ints.h = SubSeq(ints.bytes, ints.b + 1, Len(ints.bytes))
        /\ ints.value =
            IF le_gt(ValueUnder(ints.bytes, ints.parser.val.size, ints.b, DTLEN(ints.b)),
                     to_le_bytes(ints.parser.val.bitmask, DTLEN(ints.b)))
            THEN to_le_bytes(ints.parser.val.bitmask, DTLEN(ints.b))
            ELSE ValueUnder(ints.bytes, ints.parser.val.size, ints.b, DTLEN(ints.b))

RECURSIVE LeastPowerOfTwoFrom(_, _)
LeastPowerOfTwoFrom(x, p) == IF p >= x THEN p ELSE LeastPowerOfTwoFrom(x, 2 * p)

\* C20: the bitmask of an integer column of b bytes is the least power of
\* two >= $PnR, clamped so that it never exceeds 2^(8b).
C20_Bitmask ==
    ints.stage \in {"parser", "read", "aborted"} =>
        ints.parser.val.bitmask =
            IF ints.b <= 3 /\ LeastPowerOfTwoFrom(ints.pnr, 1) > 256 ^ ints.b
            THEN 256 ^ ints.b
            ELSE LeastPowerOfTwoFrom(ints.pnr, 1)

(***************************************************************************)
(* The order of the deferred diagnostics.                                  *)
(***************************************************************************)
\* the diagnostics the step just taken has produced
ProducedByStep == SubSeq(emitted', Len(emitted) + 1, Len(emitted'))

\* C28: the deferred diagnostics of a result are in the order in which they
\* were produced: after and_then and try_map those accumulated before the
\* step come before those of the step, as combine puts the left operand's
\* before the right operand's.
C28_ProductionOrder ==
    [][lastOp' \in {"and_then", "try_map", "combine"} =>
            res'.deferred = res.deferred \o ProducedByStep]_vars

(***************************************************************************)
(* Typed keyword values printed and parsed again: the Display impls next   *)
(* to the FromStr impls (src/api.rs).  A printed value is, as a keyword    *)
(* value, the sequence of its comma-separated fields.                      *)
(***************************************************************************)
Display_Lin(lower, upper) == [log |-> FALSE, a |-> lower, b |-> upper]
Display_Log(offset, decades) == [log |-> TRUE, a |-> offset, b |-> decades]

\* the arm "Logarithmic" sets decades to f1 and offset to f2
Display_from_str(s) ==
    IF Len(s) = 3
    THEN IF ~parse_float(<<s[2]>>).ok THEN Err(parse_float(<<s[2]>>).msg)
         ELSE IF ~parse_float(<<s[3]>>).ok THEN Err(parse_float(<<s[3]>>).msg)
         ELSE IF s[1] = W("Linear") THEN Ok(Display_Lin(s[2], s[3]))
         ELSE IF s[1] = W("Logarithmic") THEN Ok(Display_Log(s[3], s[2]))
         ELSE Err("Type must be either 'Logarithmic' or 'Linear'")
    ELSE Err("must be like 'string,f1,f2'")

Display_fmt(self) ==
    IF self.log THEN <<W("Log"), self.a, self.b>> ELSE <<W("Linear"), self.a, self.b>>

Scale_fmt(self) == IF self.log THEN <<self.decades, self.offset>> ELSE <<W("Lin")>>

Bytes_fmt(self) == IF self.fixed THEN <<N(self.b)>> ELSE <<W("*")>>

Range_fmt(self) == <<self.v>>

Endian_fmt(self) ==
    IF self = "Big" THEN <<N(4), N(3), N(2), N(1)>> ELSE <<N(1), N(2), N(3), N(4)>>

ByteOrd_fmt(self) ==
    IF self.endian THEN Endian_fmt(self.e)
    ELSE [i \in 1..Len(self.order) |-> N(self.order[i])]

\* <V as FromStr>::from_str and <V as Display>::fmt of the printable types
from_str(ty, s, overflow_checks) ==
    IF ty = "Display" THEN Display_from_str(s)
    ELSE IF ty = "Range" THEN Range_from_str(s, overflow_checks)
    ELSE FromStr(ty, s)

to_string(ty, v) ==
    CASE ty = "Display" -> Display_fmt(v)
      [] ty = "Scale" -> Scale_fmt(v)
      [] ty = "Bytes" -> Bytes_fmt(v)
      [] ty = "Range" -> Range_fmt(v)
      [] ty = "ByteOrd" -> ByteOrd_fmt(v)

\* the strings parsed, by type
ValueStrings(ty) ==
    CASE ty = "Bytes" ->
            {<<W("*")>>, <<W("x")>>, <<N(8), N(8)>>}
            \cup {<<N(n)>> : n \in {0, 1, 7, 8, 9, 12, 16, 32, 33, 56, 64, 65, 72, 256}}
      [] ty = "Range" ->
            {<<N(0)>>, <<N(1)>>, <<N(2)>>, <<N(1024)>>, <<Big(Above_u32)>>,
             <<Big(Above_u64)>>, <<W("x")>>}
      [] ty = "Scale" ->
            {<<N(0), N(0)>>, <<N(4), N(1)>>, <<N(0), N(1)>>, <<N(4)>>, <<W("x"), N(1)>>}
      [] ty = "Display" ->
            {<<W("Linear"), N(0), N(10)>>, <<W("Logarithmic"), N(4), N(1)>>,
             <<W("Log"), N(1), N(4)>>, <<W("Linear"), N(0)>>}
      [] ty = "ByteOrd" ->
            {<<N(1), N(2), N(3), N(4)>>, <<N(4), N(3), N(2), N(1)>>, <<N(2), N(1)>>,
             <<N(1), N(2)>>, <<N(3), N(1), N(2)>>, <<N(1), N(3)>>, <<W("x")>>}

ValInit ==
    /\ \E ty \in {"Bytes", "Range", "Scale", "Display", "ByteOrd"},
          overflow_checks \in BOOLEAN :
        \E s \in ValueStrings(ty) :
            tv = [stage |-> "string", ty |-> ty, s |-> s,
                  overflow_checks |-> overflow_checks,
                  parsed |-> NoVal, printed |-> NoVal, again |-> NoVal]
    /\ dat = Idle /\ ints = Idle /\ segs = Idle
    /\ pc = Idle /\ file = Idle /\ readLog = <<>>
    /\ res = Idle /\ emitted = <<>> /\ lastOp = Idle
    /\ raw_standard_keywords = Idle
    /\ missing_keywords = <<>>
    /\ deprecated_keys = <<>>
    /\ deprecated_features = <<>>
    /\ raw_nonstandard_keywords = {}
    /\ meta_errors = <<>>
    /\ meta_warnings = <<>>
    /\ call = Idle
    /\ text = Idle /\ interp = Idle
    /\ xs = <<>> /\ conf_raw = Idle /\ split = Idle

ValFrame ==
    UNCHANGED <<accVars, kwVars, textVars, splitVars, pc, file, readLog, segs, ints, dat>>

\* what a parse comes to: a value, an error, or the abort of the process
Parsed(r) ==
    IF r.ok THEN "parsed" ELSE IF r.msg = PANIC THEN "aborted" ELSE "rejected"

\* s.parse::<V>()
ParseValue ==
    /\ tv.stage = "string"
    /\ tv' = [tv EXCEPT !.stage = Parsed(from_str(tv.ty, tv.s, tv.overflow_checks)),
                        !.parsed = from_str(tv.ty, tv.s, tv.overflow_checks)]
    /\ ValFrame

\* v.to_string()
PrintValue ==
    /\ tv.stage = "parsed"
    /\ tv' = [tv EXCEPT !.stage = "printed",
                        !.printed = to_string(tv.ty, tv.parsed.val)]
    /\ ValFrame

\* the printed string is parsed
ParseAgain ==
    /\ tv.stage = "printed"
    /\ tv' = [tv EXCEPT !.stage = "again",
                        !.again = from_str(tv.ty, tv.printed, tv.overflow_checks)]
    /\ ValFrame

ValNext ==
    \/ ParseValue
    \/ PrintValue
    \/ ParseAgain

SpecVal == ValInit /\ [][ValNext]_vars

\* C24: $PnB is accepted exactly when it is `*`, giving Variable, or a
\* decimal integer n with 1 <= n <= 64 that is a multiple of 8, giving
\* Fixed(n/8); every other string, 0 included, is rejected.
C24_BytesAccepted ==
    (tv.ty = "Bytes" /\ tv.stage # "string") =>
        IF tv.s = <<W("*")>> THEN tv.parsed.ok /\ tv.parsed.val = Bytes_Variable
        ELSE IF /\ Len(tv.s) = 1 /\ tv.s[1].k = "n"
                /\ tv.s[1].n \in 1..64 /\ tv.s[1].n % 8 = 0
             THEN tv.parsed.ok /\ tv.parsed.val = Bytes_Fixed(tv.s[1].n \div 8)
             ELSE ~tv.parsed.ok

\* C25: parsing $PnR from a non-negative decimal integer v ends normally; the
\* integer stored is v - 1 for 1 <= v <= 2^64 and u64::MAX above, and is
\* never what arithmetic wraparound leaves.
C25_RangeStored ==
    (tv.ty = "Range" /\ tv.stage # "string" /\ IsNumeral(tv.s[1])) =>
        /\ tv.stage # "aborted"
        /\ tv.parsed.ok
        /\ tv.parsed.val.int
        /\ tv.s[1] = N(0) => tv.parsed.val.v # u64_MAX
        /\ tv.s[1] # N(0) =>
            tv.parsed.val.v =
                IF tv.s[1].k = "n" THEN N(tv.s[1].n - 1)
                ELSE IF tv.s[1] = Big(Above_u32) THEN Big("4294967295")
                ELSE u64_MAX

\* C26: for each typed keyword value, printing a value that its parser
\* returned and parsing the print again succeeds with the same value.
C26_RoundTrip ==
    tv.stage = "again" => tv.again.ok /\ tv.again.val = tv.parsed.val

(***************************************************************************)
(* Reading DATA: read_data_delim_ascii, read_data_ascii_fixed,             *)
(* read_data_mixed and read_data_int (src/api.rs).  A byte is its number;  *)
(* an f64 read from ASCII digits is the integer they spell; an integer     *)
(* read from bytes is the sequence of its bytes, least significant first.  *)
(***************************************************************************)
MaxStream == 4      \* bytes in a DATA segment
MaxRows == 2        \* events of a plan

Alphabet == {49, 50, 44, 32, 120}      \* '1' '2' ',' ' ' 'x'
DataStreams == UNION {[1..n -> Alphabet] : n \in 0..MaxStream}

\* the DATA `1,2,3 4,5,6 `
ExampleData == <<49, 44, 50, 44, 51, 32, 52, 44, 53, 44, 54, 32>>

is_delim(byte) == byte \in {9, 10, 13, 32, 44}

IsDigits(s) == s # <<>> /\ \A i \in DOMAIN s : s[i] \in 48..57

RECURSIVE Decimal(_)
Decimal(s) == IF s = <<>> THEN 0 ELSE 10 * Decimal(SubSeq(s, 1, Len(s) - 1)) + s[Len(s)] - 48

\* s.parse::<f64>() on the strings of the alphabet: the digit strings parse
parse_f64_io(s) == IF IsDigits(s) THEN Ok(Decimal(s)) ELSE Err("invalid float literal")
ascii_to_float_io(buf) == parse_f64_io(buf)

DelimAsciiParser(ncols, nrows, nbytes) ==
    [kind |-> "DelimitedAscii", ncols |-> ncols, nrows |-> nrows, nbytes |-> nbytes]
FixedAsciiParser(columns, nrows) ==
    [kind |-> "FixedWidthAscii", columns |-> columns, nrows |-> nrows]

\* build_mixed_parser's column of a measurement: an ASCII column starts with
\* data: vec![], an integer column with to_col_parser's vec![zero; t] for
\* the t events of the plan
MixedColumnType(ty, bytes, range, byteord, t) ==
    IF ty = "Ascii"
    THEN [type |-> "Ascii", width |-> bytes, parser |-> NoVal, data |-> <<>>]
    ELSE [type |-> "Uint", width |-> bytes,
          parser |-> to_col_parser(range, byteord, bytes).val,
          data |-> [r \in 1..t |-> Zeros(DTLEN(bytes))]]
MixedParser(nrows, columns) == [kind |-> "Mixed", nrows |-> nrows, columns |-> columns]
IntParser(nrows, columns) == [kind |-> "Int", nrows |-> nrows, columns |-> columns]

\* the column vectors a reader starts with
Allocated(p) ==
    CASE p.kind = "DelimitedAscii" ->
            [c \in 1..p.ncols |-> IF p.nrows.some THEN Zeros(p.nrows.val) ELSE <<>>]
      [] p.kind = "FixedWidthAscii" -> [c \in 1..Len(p.columns) |-> Zeros(p.nrows)]
      [] OTHER -> [c \in 1..Len(p.columns) |-> p.columns[c].data]

\* data[col][row] = x: both indexings are checked
IndexMut(data, col_, row_, x) ==
    IF col_ < Len(data) /\ row_ < Len(data[col_ + 1])
    THEN Ok([data EXCEPT ![col_ + 1][row_ + 1] = x])
    ELSE Err(PANIC)

\* the reader returns Err, or the process panics
Failed(d, msg) ==
    [d EXCEPT !.outcome = IF msg = PANIC THEN "Aborted" ELSE "Err", !.result = msg]

\* col and row after a value of read_data_delim_ascii was stored
NextCell(d) ==
    IF d.col = d.parser.ncols - 1
    THEN [d EXCEPT !.col = 0, !.row = IF d.parser.nrows.some THEN @ + 1 ELSE @]
    ELSE [d EXCEPT !.col = @ + 1]

\* the delimiter branch: the value in buf is parsed and stored, by index
\* when nrows is known and by push when it is not
delim_store(d) ==
    IF ~ascii_to_float_io(d.buf).ok THEN Failed(d, ascii_to_float_io(d.buf).msg)
    ELSE IF d.parser.nrows.some
    THEN IF IndexMut(d.data, d.col, d.row, ascii_to_float_io(d.buf).val).ok
         THEN NextCell([d EXCEPT
                !.last_was_delim = TRUE, !.buf = <<>>,
                !.data = IndexMut(d.data, d.col, d.row, ascii_to_float_io(d.buf).val).val])
         ELSE Failed(d, PANIC)
    ELSE NextCell([d EXCEPT
                !.last_was_delim = TRUE, !.buf = <<>>,
                !.data[d.col + 1] = Append(@, ascii_to_float_io(d.buf).val)])

\* one turn of the loop `for b in h.bytes().take(p.nbytes)` on the byte
delim_byte(d, byte) ==
    IF d.parser.nrows.some /\ d.row = d.parser.nrows.val
    THEN Failed(d, "Exceeded expected number of rows")
    ELSE IF is_delim(byte)
    THEN IF ~d.last_was_delim THEN delim_store(d) ELSE d
    ELSE [d EXCEPT !.buf = Append(@, byte)]

\* Ok(data.into_iter().map(into_series).collect())
Returned(d, data) == [d EXCEPT !.outcome = "Ok", !.data = data, !.result = data]

\* after the loop: the flush of buf into data[col][row] and the final tests
delim_finish(d, data) ==
    IF d.parser.nrows.some
    THEN IF ~(d.col = 0 /\ d.row = d.parser.nrows.val)
         THEN Failed(d, "Parsing ended in the wrong column or row")
         ELSE Returned(d, data)
    ELSE IF Cardinality({Len(data[c]) : c \in DOMAIN data}) > 1
         THEN Failed(d, "Not all columns are equal length")
         ELSE Returned(d, data)

delim_end(d) ==
    IF d.buf # <<>>
    THEN IF ~ascii_to_float_io(d.buf).ok THEN Failed(d, ascii_to_float_io(d.buf).msg)
         ELSE IF IndexMut(d.data, d.col, d.row, ascii_to_float_io(d.buf).val).ok
         THEN delim_finish(d, IndexMut(d.data, d.col, d.row,
                                       ascii_to_float_io(d.buf).val).val)
         ELSE Failed(d, PANIC)
    ELSE delim_finish(d, d.data)

\* h.take(width).read_to_string(&mut buf): the bytes that are left, up to width
take_to_string(h, width) == SubSeq(h, 1, IF width < Len(h) THEN width ELSE Len(h))

\* the value read for the column: an ASCII column parses the width's bytes,
\* an integer column is read by read_int_masked
read_cell(h, column) ==
    IF column.type = "Ascii"
    THEN IF parse_f64_io(take_to_string(h, column.width)).ok
         THEN Read(TRUE, parse_f64_io(take_to_string(h, column.width)).val,
                   SubSeq(h, Len(take_to_string(h, column.width)) + 1, Len(h)))
         ELSE Read(FALSE, parse_f64_io(take_to_string(h, column.width)).msg, h)
    ELSE read_int_masked(h, column.parser.size,
                         to_le_bytes(column.parser.bitmask, DTLEN(column.width)),
                         DTLEN(column.width), column.width)

\* the columns of a fixed-width plan; those of FixedAsciiParser are widths
ColumnsOf(p) ==
    IF p.kind = "FixedWidthAscii"
    THEN [c \in 1..Len(p.columns) |->
            [type |-> "Ascii", width |-> p.columns[c], parser |-> NoVal, data |-> <<>>]]
    ELSE p.columns

\* one turn of the inner loop of read_data_ascii_fixed, read_data_mixed and
\* read_data_int: the value is read, with `?`, and then written at row r
assign(d, column) ==
    IF ~read_cell(d.h, column).ok
    THEN Failed(d, read_cell(d.h, column).val)
    ELSE IF ~IndexMut(d.data, d.col, d.row, read_cell(d.h, column).val).ok
    THEN Failed(d, PANIC)
    ELSE [d EXCEPT !.h = read_cell(d.h, column).h,
                   !.data = IndexMut(d.data, d.col, d.row, read_cell(d.h, column).val).val,
                   !.col = IF d.col = Len(d.data) - 1 THEN 0 ELSE @ + 1,
                   !.row = IF d.col = Len(d.data) - 1 THEN @ + 1 ELSE @]

Reader(p, h) ==
    [parser |-> p, bytes |-> h, h |-> h, buf |-> <<>>, row |-> 0, col |-> 0,
     last_was_delim |-> FALSE, data |-> Allocated(p), outcome |-> "reading",
     result |-> NoVal]

\* the plans read: delimited ASCII with and without $TOT, fixed-width ASCII,
\* Mixed and Integer plans of one-byte columns
PlanKinds == {"DelimitedAscii", "FixedWidthAscii", "Mixed", "Int"}
MixedTypes == {<<"Ascii">>, <<"Integer", "Ascii">>, <<"Integer">>}
DataPlan(kind, ncols, known, n, tys, nbytes) ==
    CASE kind = "DelimitedAscii" ->
            DelimAsciiParser(ncols, IF known THEN Some(n) ELSE None, nbytes)
      [] kind = "FixedWidthAscii" -> FixedAsciiParser(SubSeq(<<1, 2>>, 1, ncols), n)
      [] kind = "Mixed" ->
            MixedParser(n, [c \in 1..Len(tys) |->
                MixedColumnType(tys[c], 1, Range_Int(N(255)), ByteOrd_Endian("Little"), n)])
      [] kind = "Int" ->
            IntParser(n, <<MixedColumnType("Integer", 1, Range_Int(N(255)),
                                           ByteOrd_Endian("Big"), n)>>)

DataInit ==
    /\ \/ \E h \in DataStreams, kind \in PlanKinds, ncols \in 1..2, known \in BOOLEAN,
             n \in 0..MaxRows, tys \in MixedTypes :
            dat = Reader(DataPlan(kind, ncols, known, n, tys, Len(h)), h)
       \/ dat = Reader(DelimAsciiParser(3, Some(2), Len(ExampleData)), ExampleData)
    /\ pc = Idle /\ file = Idle /\ readLog = <<>>
    /\ segs = Idle /\ ints = Idle /\ tv = Idle
    /\ res = Idle /\ emitted = <<>> /\ lastOp = Idle
    /\ raw_standard_keywords = Idle
    /\ missing_keywords = <<>>
    /\ deprecated_keys = <<>>
    /\ deprecated_features = <<>>
    /\ raw_nonstandard_keywords = {}
    /\ meta_errors = <<>>
    /\ meta_warnings = <<>>
    /\ call = Idle
    /\ text = Idle /\ interp = Idle
    /\ xs = <<>> /\ conf_raw = Idle /\ split = Idle

DataFrame ==
    UNCHANGED <<accVars, kwVars, textVars, splitVars, pc, file, readLog, segs, ints, tv>>

\* read_data_delim_ascii: the next of the nbytes bytes
DelimByte ==
    /\ dat.outcome = "reading" /\ dat.parser.kind = "DelimitedAscii"
    /\ dat.h # <<>>
    /\ dat' = [delim_byte(dat, Head(dat.h)) EXCEPT !.h = Tail(dat.h)]
    /\ DataFrame

\* read_data_delim_ascii: the bytes are used up
DelimEnd ==
    /\ dat.outcome = "reading" /\ dat.parser.kind = "DelimitedAscii"
    /\ dat.h = <<>>
    /\ dat' = delim_end(dat)
    /\ DataFrame

\* the fixed-width readers: the cell of row r and the next column
AssignCell ==
    /\ dat.outcome = "reading" /\ dat.parser.kind # "DelimitedAscii"
    /\ dat.row < dat.parser.nrows
    /\ dat' = assign(dat, ColumnsOf(dat.parser)[dat.col + 1])
    /\ DataFrame

\* the fixed-width readers: all rows were read and the columns are returned
IntoSeries ==
    /\ dat.outcome = "reading" /\ dat.parser.kind # "DelimitedAscii"
    /\ dat.row = dat.parser.nrows
    /\ dat' = Returned(dat, dat.data)
    /\ DataFrame

DataNext ==
    \/ DelimByte
    \/ DelimEnd
    \/ AssignCell
    \/ IntoSeries

SpecData == DataInit /\ [][DataNext]_vars

\* the maximal runs of non-separator bytes of a DATA segment, in order
RECURSIVE RunLen(_)
RunLen(s) == IF s = <<>> \/ is_delim(s[1]) THEN 0 ELSE 1 + RunLen(Tail(s))
RECURSIVE Runs(_)
Runs(s) ==
    IF s = <<>> THEN <<>>
    ELSE IF is_delim(s[1]) THEN Runs(Tail(s))
    ELSE <<SubSeq(s, 1, RunLen(s))>> \o Runs(SubSeq(s, RunLen(s) + 1, Len(s)))

\* the delimited-ASCII reader has ended on a DATA segment that starts with a
\* value, whose values are numbers and fill whole rows, as many as $TOT says
\* when there is a $TOT
DelimRead ==
    /\ dat.parser.kind = "DelimitedAscii"
    /\ dat.outcome # "reading"
    /\ dat.bytes # <<>> /\ ~is_delim(dat.bytes[1])
    /\ \A i \in DOMAIN Runs(dat.bytes) : IsDigits(Runs(dat.bytes)[i])
    /\ Len(Runs(dat.bytes)) % dat.parser.ncols = 0
    /\ dat.parser.nrows.some =>
            Len(Runs(dat.bytes)) = dat.parser.ncols * dat.parser.nrows.val

\* C21: in delimited-ASCII DATA each maximal run of non-separator bytes is
\* one value, a run of separators is one separator, and the values fill the
\* columns in row-major order: with $PAR = 3 and $TOT = 2 the DATA
\* `1,2,3 4,5,6 ` gives the columns [1,4], [2,5], [3,6].
C21_DelimitedAscii ==
    DelimRead =>
        /\ dat.outcome = "Ok"
        /\ Len(dat.data) = dat.parser.ncols
        /\ \A c \in 1..dat.parser.ncols :
            /\ Len(dat.data[c]) = Len(Runs(dat.bytes)) \div dat.parser.ncols
            /\ \A r \in 1..Len(dat.data[c]) :
                    dat.data[c][r] = Decimal(Runs(dat.bytes)[(r - 1) * dat.parser.ncols + c])
        /\ dat.bytes = ExampleData => dat.data = << <<1, 4>>, <<2, 5>>, <<3, 6>> >>

\* C27: in a plan with a known row count every column is allocated with
\* nrows entries before reading, no write at a row r < nrows is out of
\* bounds, and the columns returned have length nrows; this includes the
\* fixed-width ASCII columns of a Mixed plan.
C27_ColumnsAllocated ==
    dat.parser.kind \in {"FixedWidthAscii", "Mixed", "Int"} =>
        /\ \A c \in DOMAIN dat.data : Len(dat.data[c]) = dat.parser.nrows
        /\ dat.outcome # "Aborted"

====
